---- MODULE Spec2Model ----
(***************************************************************************)
(* ShambaSmartAI: the orchestration core.                                  *)
(*                                                                         *)
(*   - AgentOrchestrator.processQuery (src/src/agents/orchestrator.ts),    *)
(*     with TranslationAgent.translate and generateText as it calls them;  *)
(*   - ResponseCache (src/src/utils/response-cache.ts);                    *)
(*   - BaseChannel.processMessage (src/src/channels/base-channel.ts) over  *)
(*     the DatabaseService message and user collections.                   *)
(*                                                                         *)
(* A JavaScript string is a sequence of one-character strings, so that     *)
(* includes/startsWith/endsWith/trim/toLowerCase are computed as the       *)
(* runtime computes them.  A fixed text of the program that is only ever   *)
(* compared or concatenated is a one-element sequence holding the text.    *)
(***************************************************************************)
EXTENDS Integers, Sequences, FiniteSets, TLC

----------------------------------------------------------------------------
(* String primitives *)

UpperChars ==
  <<"A", "B", "C", "D", "E", "F", "G", "H", "I", "J", "K", "L", "M",
    "N", "O", "P", "Q", "R", "S", "T", "U", "V", "W", "X", "Y", "Z">>

LowerChars ==
  <<"a", "b", "c", "d", "e", "f", "g", "h", "i", "j", "k", "l", "m",
    "n", "o", "p", "q", "r", "s", "t", "u", "v", "w", "x", "y", "z">>

Whitespace == {" ", "\n", "\t"}

toLowerChar(c) ==
  IF \E i \in 1..Len(UpperChars) : UpperChars[i] = c
  THEN LowerChars[CHOOSE i \in 1..Len(UpperChars) : UpperChars[i] = c]
  ELSE c

\* String.prototype.toLowerCase
toLowerCase(s) == [i \in 1..Len(s) |-> toLowerChar(s[i])]

\* String.prototype.trim
trim(s) ==
  LET keep == {i \in 1..Len(s) : s[i] \notin Whitespace}
  IN  IF keep = {} THEN <<>>
      ELSE LET lo == CHOOSE i \in keep : \A j \in keep : i <= j
               hi == CHOOSE i \in keep : \A j \in keep : j <= i
           IN  SubSeq(s, lo, hi)

\* String.prototype.includes
includes(s, kw) ==
  \E i \in 1..(Len(s) - Len(kw) + 1) : SubSeq(s, i, i + Len(kw) - 1) = kw

\* String.prototype.startsWith
startsWith(s, p) == Len(p) <= Len(s) /\ SubSeq(s, 1, Len(p)) = p

\* String.prototype.endsWith
endsWith(s, p) == Len(p) <= Len(s) /\ SubSeq(s, Len(s) - Len(p) + 1, Len(s)) = p

\* list.some(kw => s.includes(kw))
someIncluded(list, s) == \E i \in 1..Len(list) : includes(s, list[i])

----------------------------------------------------------------------------
(* The vocabularies of orchestrator.ts *)

\* orchestrator.ts:176-184, the greeting phrases of isGreeting
greetings ==
  <<
    <<"h", "e", "l", "l", "o">>,
    <<"h", "i">>,
    <<"h", "e", "y">>,
    <<"g", "r", "e", "e", "t", "i", "n", "g", "s">>,
    <<"g", "o", "o", "d", " ", "m", "o", "r", "n", "i", "n", "g">>,
    <<"g", "o", "o", "d", " ", "a", "f", "t", "e", "r", "n", "o", "o", "n">>,
    <<"g", "o", "o", "d", " ", "e", "v", "e", "n", "i", "n", "g">>,
    <<"g", "o", "o", "d", " ", "d", "a", "y">>,
    <<"h", "o", "w", "d", "y">>,
    <<"s", "u", "p">>,
    <<"w", "h", "a", "t", "'", "s", " ", "u", "p">>,
    <<"h", "o", "w", " ", "a", "r", "e", " ", "y", "o", "u">>,
    <<"h", "o", "w", " ", "d", "o", " ", "y", "o", "u", " ", "d", "o">>,
    <<"n", "i", "c", "e", " ", "t", "o", " ", "m", "e", "e", "t", " ", "y", "o", "u">>,
    <<"p", "l", "e", "a", "s", "e", "d", " ", "t", "o", " ", "m", "e", "e", "t", " ", "y", "o", "u">>,
    <<"h", "a", "b", "a", "r", "i">>,
    <<"j", "a", "m", "b", "o">>,
    <<"m", "a", "m", "b", "o">>,
    <<"s", "a", "l", "a", "m", "a">>,
    <<"s", "h", "i", "k", "a", "m", "o", "o">>,
    <<"h", "u", "j", "a", "m", "b", "o">>,
    <<"h", "a", "b", "a", "r", "i", " ", "y", "a", "k", "o">>,
    <<"h", "a", "b", "a", "r", "i", " ", "z", "a", " ", "a", "s", "u", "b", "u", "h", "i">>,
    <<"h", "a", "b", "a", "r", "i", " ", "z", "a", " ", "m", "c", "h", "a", "n", "a">>,
    <<"h", "a", "b", "a", "r", "i", " ", "z", "a", " ", "j", "i", "o", "n", "i">>
  >>

\* orchestrator.ts:187-193, keywords that make a query NOT a greeting
farmingKeywords ==
  <<
    <<"p", "l", "a", "n", "t">>,
    <<"g", "r", "o", "w">>,
    <<"c", "r", "o", "p">>,
    <<"m", "a", "i", "z", "e">>,
    <<"f", "a", "r", "m">>,
    <<"h", "a", "r", "v", "e", "s", "t">>,
    <<"p", "e", "s", "t">>,
    <<"w", "e", "a", "t", "h", "e", "r">>,
    <<"p", "r", "i", "c", "e">>,
    <<"m", "a", "r", "k", "e", "t">>,
    <<"p", "a", "n", "d", "a">>,
    <<"k", "u", "p", "a", "n", "d", "a">>,
    <<"l", "i", "m", "a">>,
    <<"k", "u", "l", "i", "m", "a">>,
    <<"m", "a", "h", "i", "n", "d", "i">>,
    <<"s", "h", "a", "m", "b", "a">>,
    <<"m", "a", "v", "u", "n", "o">>,
    <<"w", "a", "d", "u", "d", "u">>,
    <<"h", "a", "l", "i">>,
    <<"b", "e", "i">>,
    <<"s", "o", "k", "o">>,
    <<"m", "b", "o", "l", "e", "a">>,
    <<"m", "b", "e", "g", "u">>,
    <<"m", "a", "j", "i">>,
    <<"u", "d", "o", "n", "g", "o">>,
    <<"z", "a", "o">>,
    <<"m", "a", "z", "a", "o">>,
    <<"m", "i", "f", "u", "g", "o">>,
    <<"n", "g", "'", "o", "m", "b", "e">>,
    <<"k", "u", "k", "u">>,
    <<"m", "b", "u", "z", "i">>
  >>

\* orchestrator.ts:236
cropKeywords ==
  <<
    <<"c", "r", "o", "p">>,
    <<"p", "l", "a", "n", "t">>,
    <<"m", "a", "i", "z", "e">>,
    <<"w", "h", "e", "a", "t">>,
    <<"r", "i", "c", "e">>,
    <<"b", "e", "a", "n", "s">>,
    <<"p", "o", "t", "a", "t", "o">>,
    <<"t", "o", "m", "a", "t", "o">>,
    <<"c", "o", "f", "f", "e", "e">>,
    <<"t", "e", "a">>,
    <<"s", "o", "r", "g", "h", "u", "m">>,
    <<"m", "i", "l", "l", "e", "t">>,
    <<"h", "a", "r", "v", "e", "s", "t">>,
    <<"p", "l", "a", "n", "t", "i", "n", "g">>,
    <<"g", "r", "o", "w", "i", "n", "g">>
  >>

\* orchestrator.ts:237
livestockKeywords ==
  <<
    <<"l", "i", "v", "e", "s", "t", "o", "c", "k">>,
    <<"c", "a", "t", "t", "l", "e">>,
    <<"c", "o", "w">>,
    <<"g", "o", "a", "t">>,
    <<"s", "h", "e", "e", "p">>,
    <<"c", "h", "i", "c", "k", "e", "n">>,
    <<"p", "o", "u", "l", "t", "r", "y">>,
    <<"d", "a", "i", "r", "y">>,
    <<"m", "i", "l", "k">>,
    <<"m", "e", "a", "t">>,
    <<"b", "r", "e", "e", "d", "i", "n", "g">>
  >>

\* orchestrator.ts:238
pestKeywords ==
  <<
    <<"p", "e", "s", "t">>,
    <<"d", "i", "s", "e", "a", "s", "e">>,
    <<"s", "y", "m", "p", "t", "o", "m">>,
    <<"i", "n", "f", "e", "c", "t", "e", "d">>,
    <<"d", "a", "m", "a", "g", "e">>,
    <<"c", "o", "n", "t", "r", "o", "l">>,
    <<"t", "r", "e", "a", "t", "m", "e", "n", "t">>,
    <<"s", "p", "r", "a", "y">>,
    <<"f", "u", "n", "g", "u", "s">>,
    <<"b", "a", "c", "t", "e", "r", "i", "a">>,
    <<"v", "i", "r", "u", "s">>
  >>

\* orchestrator.ts:239
weatherKeywords ==
  <<
    <<"w", "e", "a", "t", "h", "e", "r">>,
    <<"r", "a", "i", "n">>,
    <<"r", "a", "i", "n", "f", "a", "l", "l">>,
    <<"c", "l", "i", "m", "a", "t", "e">>,
    <<"f", "o", "r", "e", "c", "a", "s", "t">>,
    <<"d", "r", "o", "u", "g", "h", "t">>,
    <<"f", "l", "o", "o", "d">>,
    <<"t", "e", "m", "p", "e", "r", "a", "t", "u", "r", "e">>,
    <<"h", "u", "m", "i", "d", "i", "t", "y">>
  >>

\* orchestrator.ts:240
marketKeywords ==
  <<
    <<"p", "r", "i", "c", "e">>,
    <<"m", "a", "r", "k", "e", "t">>,
    <<"s", "e", "l", "l">>,
    <<"b", "u", "y">>,
    <<"t", "r", "a", "d", "i", "n", "g">>,
    <<"c", "o", "s", "t">>,
    <<"v", "a", "l", "u", "e">>,
    <<"r", "e", "v", "e", "n", "u", "e">>,
    <<"p", "r", "o", "f", "i", "t">>
  >>

\* orchestrator.ts:241
extensionKeywords ==
  <<
    <<"h", "e", "l", "p">>,
    <<"s", "u", "p", "p", "o", "r", "t">>,
    <<"e", "x", "t", "e", "n", "s", "i", "o", "n">>,
    <<"o", "f", "f", "i", "c", "e", "r">>,
    <<"c", "o", "n", "t", "a", "c", "t">>,
    <<"a", "s", "s", "i", "s", "t", "a", "n", "c", "e">>,
    <<"a", "d", "v", "i", "c", "e">>
  >>

\* orchestrator.ts:160, in the order find() scans them
validCategories ==
  <<
    <<"g", "r", "e", "e", "t", "i", "n", "g">>,
    <<"c", "r", "o", "p">>,
    <<"l", "i", "v", "e", "s", "t", "o", "c", "k">>,
    <<"p", "e", "s", "t">>,
    <<"w", "e", "a", "t", "h", "e", "r">>,
    <<"m", "a", "r", "k", "e", "t">>,
    <<"e", "x", "t", "e", "n", "s", "i", "o", "n">>
  >>

I_greeting == <<"g", "r", "e", "e", "t", "i", "n", "g">>

I_crop == <<"c", "r", "o", "p">>

I_livestock == <<"l", "i", "v", "e", "s", "t", "o", "c", "k">>

I_pest == <<"p", "e", "s", "t">>

I_weather == <<"w", "e", "a", "t", "h", "e", "r">>

I_market == <<"m", "a", "r", "k", "e", "t">>

I_extension == <<"e", "x", "t", "e", "n", "s", "i", "o", "n">>

I_general == <<"g", "e", "n", "e", "r", "a", "l">>

\* orchestrator.ts:61
cropTriggers ==
  <<
    <<"c", "r", "o", "p">>,
    <<"p", "l", "a", "n", "t", "i", "n", "g">>,
    <<"h", "a", "r", "v", "e", "s", "t">>
  >>

\* orchestrator.ts:65
livestockTriggers ==
  <<
    <<"l", "i", "v", "e", "s", "t", "o", "c", "k">>,
    <<"c", "a", "t", "t", "l", "e">>,
    <<"g", "o", "a", "t">>,
    <<"c", "h", "i", "c", "k", "e", "n">>
  >>

\* orchestrator.ts:69
pestTriggers ==
  <<
    <<"p", "e", "s", "t">>,
    <<"d", "i", "s", "e", "a", "s", "e">>,
    <<"s", "y", "m", "p", "t", "o", "m">>
  >>

\* orchestrator.ts:73
climateTriggers ==
  <<
    <<"w", "e", "a", "t", "h", "e", "r">>,
    <<"r", "a", "i", "n">>,
    <<"c", "l", "i", "m", "a", "t", "e">>
  >>

\* orchestrator.ts:77
marketTriggers ==
  <<
    <<"p", "r", "i", "c", "e">>,
    <<"m", "a", "r", "k", "e", "t">>,
    <<"s", "e", "l", "l">>
  >>

\* orchestrator.ts:81
extensionTriggers ==
  <<
    <<"e", "x", "t", "e", "n", "s", "i", "o", "n">>,
    <<"h", "e", "l", "p">>,
    <<"s", "u", "p", "p", "o", "r", "t">>
  >>

Q_hello == <<"h", "e", "l", "l", "o">>

Q_HiThere == <<"H", "i", " ", "t", "h", "e", "r", "e">>

Q_pests == <<"W", "h", "a", "t", " ", "p", "e", "s", "t", "s", " ", "a", "f", "f", "e", "c", "t", " ", "m", "a", "i", "z", "e", "?">>

Q_holes == <<"m", "y", " ", "m", "a", "i", "z", "e", " ", "l", "e", "a", "v", "e", "s", " ", "h", "a", "v", "e", " ", "h", "o", "l", "e", "s">>

Q_advice == <<"I", " ", "n", "e", "e", "d", " ", "a", "d", "v", "i", "c", "e", " ", "o", "n", " ", "g", "r", "o", "w", "i", "n", "g", " ", "m", "a", "i", "z", "e">>

Q_wadudu == <<"w", "a", "d", "u", "d", "u", " ", "w", "a", " ", "m", "a", "h", "i", "n", "d", "i">>

Q_thanks == <<"t", "h", "a", "n", "k", "s", " ", "a", " ", "l", "o", "t">>

Q_rain == <<" ", "W", "h", "e", "n", " ", "w", "i", "l", "l", " ", "i", "t", " ", "r", "a", "i", "n", "?", " ">>

Q_empty == <<" ", " ", " ">>

Q_spray == <<"h", "o", "w", " ", "t", "o", " ", "s", "p", "r", "a", "y", " ", "f", "u", "n", "g", "u", "s">>

Q_maizePests == <<"m", "a", "i", "z", "e", " ", "p", "e", "s", "t", "s">>

AI_pest == <<"p", "e", "s", "t">>

AI_Crop == <<"C", "r", "o", "p", "\n">>

AI_pestCrop == <<"p", "e", "s", "t", ",", " ", "c", "r", "o", "p">>

AI_greeting == <<"g", "r", "e", "e", "t", "i", "n", "g">>

AI_livestock == <<"l", "i", "v", "e", "s", "t", "o", "c", "k">>

AI_weather == <<" ", "W", "e", "a", "t", "h", "e", "r">>

AI_market == <<"m", "a", "r", "k", "e", "t">>

AI_extension == <<"e", "x", "t", "e", "n", "s", "i", "o", "n">>

AI_unsure == <<"n", "o", "t", " ", "s", "u", "r", "e">>
----------------------------------------------------------------------------
(* Fixed texts of the program *)

GreetingFirstEn == <<"Hello! I'm your agricultural assistant. I can help you with crops, livestock, pests, weather, or market information. What would you like to know?">>

GreetingFirstSw == <<"Karibu! Mimi ni msaidizi wako wa kilimo. Nisaidie kwa swali lolote kuhusu mazao, mifugo, wadudu, hali ya hewa, au soko. Unaweza kuuliza nini?">>

GreetingAgainEn == <<"Hello! Feel free to ask me any farming question. I'm here to help.">>

GreetingAgainSw == <<"Habari! Unaweza kuuliza swali lolote kuhusu kilimo. Nitafurahi kukusaidia.">>

OrchestratorApology == <<"Sorry, I encountered an error. Please try again or contact support.">>

ChannelApology == <<"Sorry, I encountered an error. Please try again.">>

NoInformation == <<"I could not find relevant information.">>

ApologyNotConfigured == <<"I apologize, but the AI service is not properly configured. Please contact support.">>

ApologyNoResponse == <<"I apologize, but I could not generate a response. Please try again.">>

ApologyGenerationError == <<"I apologize, but I encountered an error processing your question. Please try again or contact support.">>

AgentInvalidInput == <<"I apologize, but I couldn't understand your question. Could you please rephrase it?">>

AgentError == <<"I apologize, but I encountered an error processing your question. Please try again.">>

\* '\n\n', the separator of combineResponses
BlankLine == <<"\n", "\n">>

----------------------------------------------------------------------------
(* generateText and TranslationAgent.translate, as the orchestrator uses   *)
(* them (useCache = false)                                                 *)

\* What one generateText call meets:
\*   primary    Vertex AI is configured and answers
\*   secondary  Vertex AI is unconfigured or fails, the API-key backend answers
\*   nokey      Vertex AI is unconfigured or fails and there is no API key
\*   empty      the API-key backend answers with no text
\*   error      the API-key backend call throws
GenOutcomes == {"primary", "secondary", "nokey", "empty", "error"}

\* cleanResponse on a text that carries no Question:/Answer: header: the
\* replace() calls match nothing and the trailing trim() is what remains.
cleanResponse(text) == trim(text)

\* generateText with useCache = false; llmText is what the answering backend
\* produced for the prompt.
generateTextUncached(outcome, llmText) ==
  CASE outcome \in {"primary", "secondary"} ->
         IF cleanResponse(llmText) = <<>> /\ outcome = "secondary"
         THEN ApologyNoResponse
         ELSE cleanResponse(llmText)
    [] outcome = "nokey" -> ApologyNotConfigured
    [] outcome = "empty" -> ApologyNoResponse
    [] OTHER -> ApologyGenerationError

\* The answer of the language model to "Translate from X to Y: text": the
\* model's rendering of the texts the scenarios use, and for any other text
\* the text marked with the target language.
LLMTranslation(text, to) ==
  CASE text = Q_wadudu /\ to = "en" -> Q_maizePests
    [] text = Q_maizePests /\ to = "sw" -> Q_wadudu
    [] OTHER -> <<"[", to, "]", " ">> \o text

translate(text, from, to, outcome) ==
  IF from = to THEN text
  ELSE trim(generateTextUncached(outcome, LLMTranslation(text, to)))

----------------------------------------------------------------------------
(* AgentOrchestrator: the synchronous helpers *)

GreetingMaxLength == 20

isGreeting(query) ==
  IF someIncluded(farmingKeywords, query) THEN FALSE
  ELSE IF Len(query) < GreetingMaxLength
       THEN \E i \in 1..Len(greetings) :
              \/ query = greetings[i]
              \/ startsWith(query, greetings[i] \o <<" ">>)
              \/ endsWith(query, <<" ">> \o greetings[i])
       ELSE FALSE

\* A UserContext: context.user is a User, or is missing (an untyped caller).
Contexts ==
  { [hasUser |-> TRUE, preferredLanguage |-> "en"],
    [hasUser |-> TRUE, preferredLanguage |-> "sw"],
    [hasUser |-> FALSE, preferredLanguage |-> "en"] }

\* handleGreeting reads context.user.preferredLanguage: a TypeError without user.
handleGreetingThrows(context) == ~context.hasUser

handleGreeting(context, conversationHistory) ==
  LET isSwahili == context.preferredLanguage = "sw"
  IN  IF Len(conversationHistory) > 0
      THEN (IF isSwahili THEN GreetingAgainSw ELSE GreetingAgainEn)
      ELSE (IF isSwahili THEN GreetingFirstSw ELSE GreetingFirstEn)

keywordBasedClassification(query) ==
  LET lowerQuery == toLowerCase(query)
  IN  IF isGreeting(lowerQuery) THEN I_greeting
      ELSE IF someIncluded(cropKeywords, lowerQuery) THEN I_crop
      ELSE IF someIncluded(livestockKeywords, lowerQuery) THEN I_livestock
      ELSE IF someIncluded(pestKeywords, lowerQuery) THEN I_pest
      ELSE IF someIncluded(weatherKeywords, lowerQuery) THEN I_weather
      ELSE IF someIncluded(marketKeywords, lowerQuery) THEN I_market
      ELSE IF someIncluded(extensionKeywords, lowerQuery) THEN I_extension
      ELSE I_general

\* classifyIntent reads context?.user.county before the AI call: without a
\* user that throws inside its try and the AI is never called.
classifierCalled(context) == context.hasUser

\* aiClassification is what generateText returned.
classifyIntent(query, context, aiClassification) ==
  IF ~classifierCalled(context) THEN keywordBasedClassification(query)
  ELSE LET cleaned == trim(toLowerCase(aiClassification))
           found == {i \in 1..Len(validCategories) : includes(cleaned, validCategories[i])}
       IN  IF found # {}
           THEN validCategories[CHOOSE i \in found : \A j \in found : i <= j]
           ELSE keywordBasedClassification(query)

----------------------------------------------------------------------------
(* The generators, as the orchestrator sees them: BaseAgent.process *)

\* The agents in the order processQuery tests them (orchestrator.ts:61-83).
AgentOrder == <<"crop", "livestock", "pest", "climate", "market", "extension">>

agentTriggers(agent) ==
  CASE agent = "crop" -> cropTriggers
    [] agent = "livestock" -> livestockTriggers
    [] agent = "pest" -> pestTriggers
    [] agent = "climate" -> climateTriggers
    [] agent = "market" -> marketTriggers
    [] agent = "extension" -> extensionTriggers

\* The confidences (in hundredths) a generator returns in the model: values
\* on both sides of the 0.5 threshold of combineResponses.
AgentConfidences == {30, 50, 55, 95}

\* What one BaseAgent.process call meets, with the confidence
\* calculateConfidence computes from the retrieved passages:
\*   ok                generateText answers the agent's prompt
\*   nokey/empty/error generateText meets that outcome and returns its apology
\*   generationThrows  something else inside the agent's generateResponse throws
\*   throws            something in process itself, outside generateResponse, throws
AgentOutcomes ==
  {[kind |-> k, confidence |-> c] :
     k \in {"ok", "nokey", "empty", "error", "generationThrows"}, c \in AgentConfidences}
    \cup {[kind |-> "throws", confidence |-> 0]}

MinLength == 1

\* The text the catch of each agent's generateResponse returns.
GenerationApology(agent) ==
  CASE agent = "crop" ->
         <<"I apologize, but I encountered an error processing your crop question. Please try rephrasing or contact an extension officer.">>
    [] agent = "livestock" ->
         <<"I apologize, but I encountered an error processing your livestock question. Please try rephrasing or contact a veterinary officer.">>
    [] agent = "pest" ->
         <<"I apologize, but I encountered an error processing your pest/disease question. Please describe the symptoms in more detail or contact an extension officer.">>
    [] agent = "climate" ->
         <<"I apologize, but I encountered an error getting weather information. Please try again later.">>
    [] agent = "market" ->
         <<"I apologize, but I encountered an error getting market information. Please try again later.">>
    [] agent = "extension" ->
         <<"I apologize, but I encountered an error. Please contact the KALRO support team.">>

\* An agent's generateResponse: the text generateText returns for the
\* agent's prompt, or the agent's own apology when its try block throws.
generateResponse(agent, kind) ==
  IF kind = "generationThrows" THEN GenerationApology(agent)
  ELSE IF kind = "ok" THEN <<"advice of the ", agent, " agent">>
  ELSE generateTextUncached(kind, <<>>)

\* InputValidator.MAX_LENGTH
MaxLength == 1000

\* replace(/<[^>]+>/g, ''): a character goes when it lies in a match; a match
\* runs from a '<' whose next character is not '>' to the first '>' behind
\* that character.
stripTags(s) ==
  LET opens == {p \in 1..(Len(s) - 2) : s[p] = "<" /\ s[p + 1] # ">"}
      closes == {e \in 1..Len(s) : s[e] = ">"}
      inTag(i) ==
        \E p \in opens :
          /\ p <= i
          /\ \A k \in (p + 2)..(i - 1) : k \notin closes
          /\ \E e \in closes : e >= i /\ e >= p + 2
      marked == [i \in 1..Len(s) |-> [c |-> s[i], drop |-> inTag(i)]]
      kept == SelectSeq(marked, LAMBDA m : ~m.drop)
  IN  [i \in 1..Len(kept) |-> kept[i].c]

\* replace(/\s+/g, ' ') on a text of any length.
normalizeWhitespace(s) ==
  LET marked == [i \in 1..Len(s) |->
                   [ c |-> IF s[i] \in Whitespace THEN " " ELSE s[i],
                     drop |-> s[i] \in Whitespace /\ i > 1 /\ s[i - 1] \in Whitespace ]]
      kept == SelectSeq(marked, LAMBDA m : ~m.drop)
  IN  [i \in 1..Len(kept) |-> kept[i].c]

\* containsSuspiciousPatterns, for texts without letters other than 'a',
\* '(' or '_': the path traversal pattern is the only one that can match.
containsSuspiciousPatterns(s) == includes(s, <<".", ".", "/">>)

\* InputValidator.validate (lines 452-490), for texts made of 'a', blanks,
\* '<', '>', '.' and '/': on these the removals of script blocks, of
\* "javascript:" and of event handlers match nothing.
validate(input) ==
  LET trimmed == trim(input)
      tooLong == Len(trimmed) > MaxLength
      cut == IF tooLong THEN SubSeq(trimmed, 1, MaxLength) ELSE trimmed
      stripped == stripTags(cut)
      errors == IF tooLong THEN <<"Query exceeds maximum length">> ELSE <<>>
      warnings == (IF tooLong THEN <<"Query was truncated">> ELSE <<>>)
                  \o (IF containsSuspiciousPatterns(stripped)
                      THEN <<"Query contains unusual patterns">> ELSE <<>>)
  IN  IF Len(trimmed) < MinLength
      THEN [isValid |-> FALSE, sanitized |-> <<>>,
            errors |-> <<"Query is too short">>, warnings |-> <<>>]
      ELSE [isValid |-> Len(errors) = 0,
            sanitized |-> trim(normalizeWhitespace(stripped)),
            errors |-> errors, warnings |-> warnings]

\* BaseAgent.process: never throws; an invalid input and an exception in
\* process both give a fixed text with confidence 0.  Without context.user
\* the read of context.user.county (line 39) throws inside the try.  met
\* records what the call met.
BaseAgentProcess(agent, query, context, outcome) ==
  IF ~validate(query).isValid
  THEN [agent |-> agent, response |-> AgentInvalidInput, confidence |-> 0,
        error |-> FALSE, met |-> "invalid"]
  ELSE IF outcome.kind = "throws" \/ ~context.hasUser
  THEN [agent |-> agent, response |-> AgentError, confidence |-> 0,
        error |-> TRUE, met |-> "throws"]
  ELSE [agent |-> agent, response |-> generateResponse(agent, outcome.kind),
        confidence |-> outcome.confidence, error |-> FALSE,
        met |-> outcome.kind]

\* The agents processQuery awaits for an intent, in order: each `if` of lines
\* 61-83 whose words the intent includes, and the crop advisor when none did
\* (lines 86-88).
dispatchedAgents(intent) ==
  LET matched == SelectSeq(AgentOrder,
                           LAMBDA a : someIncluded(agentTriggers(a), intent))
  IN  IF Len(matched) = 0 THEN <<"crop">> ELSE matched

RECURSIVE join(_, _)
\* Array.prototype.join
join(texts, sep) ==
  IF Len(texts) = 0 THEN <<>>
  ELSE IF Len(texts) = 1 THEN texts[1]
  ELSE texts[1] \o sep \o join(Tail(texts), sep)

ConfidenceThreshold == 50

combineResponses(responses) ==
  IF Len(responses) = 0 THEN NoInformation
  ELSE IF Len(responses) = 1 THEN responses[1].response
  ELSE LET primary == responses[1]
           kept == SelectSeq(Tail(responses),
                             LAMBDA r : r.confidence > ConfidenceThreshold)
           additional == join([i \in 1..Len(kept) |-> kept[i].response], BlankLine)
       IN  primary.response \o BlankLine \o additional

----------------------------------------------------------------------------
(* State *)

VARIABLES
  call,       \* per request: the processQuery invocation in progress
  req,        \* per request: the processMessage invocation in progress
  users,      \* the users collection: a sequence of documents
  messages,   \* the messages collection: a set of documents
  clock,      \* Date.now()
  cache,      \* ResponseCache.cache: the Map, in insertion order
  cacheLog,   \* what the get and set calls on the cache returned and did
  merge,      \* an application of combineResponses: its argument and result
  http,       \* per request: the HTTP handler in progress and its response
  rag,        \* an application of RAGService.retrieve: its inputs and result
  redis,      \* RedisCache: the backend's keys, useRedis, and the last call
  alerts,     \* a run of the alert scheduler: its sendAlert calls and their steps
  agent,      \* an application of InputValidator.validate and calculateConfidence
  gen,        \* generateText: the call in progress and the backends it invoked
  keys        \* two applications of generateKey: the lookups and their keys

vars ==
  <<call, req, users, messages, clock, cache, cacheLog, merge, http, rag, redis,
    alerts, agent, gen, keys>>

\* No run of the alert scheduler.
NoAlertRun == [run |-> <<>>, next |-> 0, pc |-> "idle", attempts |-> <<>>]

\* No application of validate and process, nor of calculateConfidence to
\* two numbers of retrieved passages (fewer <= more).
NoAgentCall ==
  [ applied |-> FALSE, input |-> <<>>,
    validation |-> [isValid |-> FALSE, sanitized |-> <<>>, errors |-> <<>>, warnings |-> <<>>],
    result |-> [agent |-> "", response |-> <<>>, confidence |-> 0, error |-> FALSE,
                met |-> ""],
    analysis |-> [given |-> FALSE, complexity |-> "", keywords |-> 0],
    fewer |-> 0, more |-> 0, confidenceFewer |-> 0, confidenceMore |-> 0 ]

\* No HTTP request is being handled.
IdleHttp == [pc |-> "idle", endpoint |-> "", event |-> "", status |-> 0]

\* retrieve has not been applied.
NoRetrieval ==
  [applied |-> FALSE, local |-> <<>>, localThrows |-> FALSE, general |-> <<>>,
   generalThrows |-> FALSE, external |-> "disabled", online |-> <<>>,
   result |-> <<>>, raised |-> FALSE]

\* A RedisCache whose backend is not in use and that has not been called.
\* The last call on the RedisCache: failed, a Redis command of the call
\* threw; backend, "redis" when Redis answered the call and "memory" when the
\* embedded cache did; local, what the embedded cache held under the key
\* when get was called, <<"null">> for nothing.
NoRedisCall ==
  [ op |-> "none", key |-> <<>>, at |-> 0, response |-> <<"null">>, failed |-> FALSE,
    backend |-> "none", result |-> <<"null">>, local |-> <<"null">>, raised |-> FALSE,
    age |-> -1, hitCount |-> 0 ]

\* age and hitCount: for a get that Redis answered with a hit, the time since
\* the entry was set and the entry's hit count after the get.
\* useRedis is false until initializeRedis has seen the ping answered.
\* calls counts the get and set calls made.
NoRedis == [useRedis |-> FALSE, store |-> <<>>, calls |-> 0, last |-> NoRedisCall]

\* The requests in flight at once.
MaxRequests == 2

Requests == 1..MaxRequests

----------------------------------------------------------------------------
(* AgentOrchestrator.processQuery, one action per await *)

Queries ==
  { Q_hello, Q_HiThere, Q_pests, Q_holes, Q_advice, Q_wadudu, Q_thanks,
    Q_rain, Q_empty, Q_spray }

Languages == {"en", "sw", ""}

\* conversationHistory, reduced to the turns' contents
Histories == { <<>>, <<"an earlier turn">> }

\* What the language model answers to the classification prompt.
AIResponses ==
  { AI_pest, AI_Crop, AI_pestCrop, AI_greeting, AI_livestock, AI_weather,
    AI_market, AI_extension, AI_unsure }

IdleCall ==
  [ pc |-> "idle", query |-> <<>>, context |-> [hasUser |-> TRUE, preferredLanguage |-> "en"],
    history |-> <<>>, language |-> "en", processedQuery |-> <<>>,
    intent |-> <<>>, classifier |-> "none", responses |-> <<>>,
    events |-> <<>>, result |-> <<>>, raised |-> FALSE ]

\* The entry of processQuery (lines 20-25).
processQueryEnter(query, context, history, language) ==
  [ IdleCall EXCEPT !.pc = "greeting", !.query = query, !.context = context,
                    !.history = history, !.language = language ]

\* A processQuery without the catch: the exception leaves the call.
processQueryCatchRethrows(c) ==
  [ c EXCEPT !.pc = "done", !.raised = TRUE,
             !.events = Append(c.events, <<"catch">>) ]

\* The catch of processQuery (lines 100-103): the exception is logged and
\* the fixed apology returned.
processQueryCatch(c) ==
  [ c EXCEPT !.pc = "done", !.result = OrchestratorApology,
             !.events = Append(c.events, <<"catch">>) ]

\* `return text` inside the try.
processQueryReturn(c, text, events) ==
  [ c EXCEPT !.pc = "done", !.result = text, !.events = c.events \o events ]

\* The greeting reply of lines 30-35 and 53-57: the canned greeting, put
\* through the translator when language is 'sw'.
greetingReply(c, outcome) ==
  IF handleGreetingThrows(c.context) THEN processQueryCatch(c)
  ELSE LET greeting == handleGreeting(c.context, c.history)
       IN  IF c.language = "sw"
           THEN processQueryReturn(c, translate(greeting, "en", "sw", outcome),
                                   << <<"greeting">>, <<"translate", "en", "sw">> >>)
           ELSE processQueryReturn(c, greeting, << <<"greeting">> >>)

\* Lines 28-36: the greeting short-circuit.  outcome: what the translator's
\* generateText call meets, if it is made.
greetingStep(c, outcome) ==
  IF c.pc # "greeting" THEN c
  ELSE IF isGreeting(trim(toLowerCase(c.query)))
  THEN greetingReply(c, outcome)
  ELSE [c EXCEPT !.pc = "pivot"]

\* Lines 39-43: the query is translated to English when language is 'sw'.
pivotStep(c, outcome) ==
  IF c.pc # "pivot" THEN c
  ELSE IF c.language = "sw"
  THEN [ c EXCEPT !.pc = "classify",
                  !.processedQuery = translate(c.query, "sw", "en", outcome),
                  !.events = Append(c.events, <<"translate", "sw", "en">>) ]
  ELSE [ c EXCEPT !.pc = "classify", !.processedQuery = c.query ]

\* How the AI classification ended: not called, a valid category, a text
\* with no category in it, or one of generateText's apologies.
classifierStatus(context, outcome, aiClassification) ==
  IF ~classifierCalled(context) THEN "skipped"
  ELSE IF outcome \notin {"primary", "secondary"} THEN "failed"
  ELSE IF \E i \in 1..Len(validCategories) :
            includes(trim(toLowerCase(aiClassification)), validCategories[i])
  THEN "valid"
  ELSE "invalid"

\* Line 46: classifyIntent on the processed query.  llmText: what the
\* language model answers to the classification prompt.
classifyStep(c, outcome, llmText) ==
  IF c.pc # "classify" THEN c
  ELSE LET aiClassification == generateTextUncached(outcome, llmText)
       IN  [ c EXCEPT !.pc = "recheck",
                      !.intent = classifyIntent(c.processedQuery, c.context, aiClassification),
                      !.classifier = classifierStatus(c.context, outcome, aiClassification),
                      !.events = c.events \o
                         (IF classifierCalled(c.context)
                          THEN << <<"classifier">>, <<"classify">> >>
                          ELSE << <<"classify">> >>) ]

\* Lines 52-58: an intent of 'greeting' is answered like a greeting.
recheckStep(c, outcome) ==
  IF c.pc # "recheck" THEN c
  ELSE IF c.intent = I_greeting THEN greetingReply(c, outcome)
  ELSE [c EXCEPT !.pc = "dispatch"]

\* Lines 61-88: every agent the intent selects is awaited in turn.
\* outcomes[i]: what the i-th of them meets.
dispatchStep(c, outcomes) ==
  IF c.pc # "dispatch" THEN c
  ELSE LET agents == dispatchedAgents(c.intent)
       IN  [ c EXCEPT !.pc = "merge",
                      !.responses = [i \in 1..Len(agents) |->
                         BaseAgentProcess(agents[i], c.processedQuery, c.context, outcomes[i])],
                      !.events = c.events \o [i \in 1..Len(agents) |-> <<"agent", agents[i]>>] ]

\* Line 94 reads context.user.preferredLanguage only when language is falsy.
targetLanguageThrows(c) == c.language = "" /\ ~c.context.hasUser

targetLanguage(c) ==
  IF c.language # "" THEN c.language ELSE c.context.preferredLanguage

\* Lines 91-99: the responses are merged and the result translated to
\* Kiswahili when the target language is 'sw'.
mergeStep(c, outcome) ==
  IF c.pc # "merge" THEN c
  ELSE LET combinedResponse == combineResponses(c.responses)
           merged == [c EXCEPT !.events = Append(c.events, <<"merge">>)]
       IN  IF targetLanguageThrows(c) THEN processQueryCatch(merged)
           ELSE IF targetLanguage(c) = "sw"
           THEN processQueryReturn(merged, translate(combinedResponse, "en", "sw", outcome),
                                   << <<"translate", "en", "sw">> >>)
           ELSE processQueryReturn(merged, combinedResponse, <<>>)

GreetingShortCircuit(r) ==
  /\ call[r].pc = "greeting"
  /\ \E outcome \in GenOutcomes :
       call' = [call EXCEPT ![r] = greetingStep(call[r], outcome)]
  /\ UNCHANGED <<req, users, messages, clock, cache, cacheLog, merge, http, rag, redis, alerts, agent, gen, keys>>

PivotTranslate(r) ==
  /\ call[r].pc = "pivot"
  /\ \E outcome \in GenOutcomes :
       call' = [call EXCEPT ![r] = pivotStep(call[r], outcome)]
  /\ UNCHANGED <<req, users, messages, clock, cache, cacheLog, merge, http, rag, redis, alerts, agent, gen, keys>>

ClassifyIntent(r) ==
  /\ call[r].pc = "classify"
  /\ \E outcome \in GenOutcomes, llmText \in AIResponses :
       call' = [call EXCEPT ![r] = classifyStep(call[r], outcome, llmText)]
  /\ UNCHANGED <<req, users, messages, clock, cache, cacheLog, merge, http, rag, redis, alerts, agent, gen, keys>>

GreetingRecheck(r) ==
  /\ call[r].pc = "recheck"
  /\ \E outcome \in GenOutcomes :
       call' = [call EXCEPT ![r] = recheckStep(call[r], outcome)]
  /\ UNCHANGED <<req, users, messages, clock, cache, cacheLog, merge, http, rag, redis, alerts, agent, gen, keys>>

DispatchAgents(r) ==
  /\ call[r].pc = "dispatch"
  /\ \E outcomes \in [1..Len(dispatchedAgents(call[r].intent)) -> AgentOutcomes] :
       call' = [call EXCEPT ![r] = dispatchStep(call[r], outcomes)]
  /\ UNCHANGED <<req, users, messages, clock, cache, cacheLog, merge, http, rag, redis, alerts, agent, gen, keys>>

MergeAndTranslate(r) ==
  /\ call[r].pc = "merge"
  /\ \E outcome \in GenOutcomes :
       call' = [call EXCEPT ![r] = mergeStep(call[r], outcome)]
  /\ UNCHANGED <<req, users, messages, clock, cache, cacheLog, merge, http, rag, redis, alerts, agent, gen, keys>>

processQueryStep(r) ==
  \/ GreetingShortCircuit(r)
  \/ PivotTranslate(r)
  \/ ClassifyIntent(r)
  \/ GreetingRecheck(r)
  \/ DispatchAgents(r)
  \/ MergeAndTranslate(r)

\* One whole processQuery call in an environment env: what the translator's
\* and the classifier's generateText calls meet, what the language model
\* answers to the classifier, and what each generator meets.
processQueryRun(query, context, history, language, env) ==
  LET c1 == greetingStep(processQueryEnter(query, context, history, language), env.translator)
      c2 == pivotStep(c1, env.translator)
      c3 == classifyStep(c2, env.classifier, env.llmText)
      c4 == recheckStep(c3, env.translator)
      c5 == dispatchStep(c4, [i \in 1..Len(AgentOrder) |-> env.generator])
  IN  mergeStep(c5, env.translator)

\* A caller outside the channels calls processQuery with any arguments.
DirectCall(r) ==
  /\ call[r].pc = "idle"
  /\ \E query \in Queries, context \in Contexts, history \in Histories,
        language \in Languages :
       call' = [call EXCEPT ![r] = processQueryEnter(query, context, history, language)]
  /\ UNCHANGED <<req, users, messages, clock, cache, cacheLog, merge, http, rag, redis, alerts, agent, gen, keys>>

----------------------------------------------------------------------------
(* BaseChannel.processMessage over the DatabaseService collections, one    *)
(* action per await                                                        *)

\* base-channel.ts:45, getMessages(user.id, 6)
HistoryLimit == 6

\* message.from
Phones == {"+254700000001"}

\* message.content with message.metadata.language, as the web channel sets
\* it (web.ts:26): an English greeting and a Kiswahili question.
ChannelMessages == { <<Q_hello, "en">>, <<Q_wadudu, "sw">> }

\* new Date(): the time has or has not moved on since it was last read.
Dates == {clock, clock + 1}

\* The environments a processQuery call made by a channel runs in: every
\* backend answering, and no backend configured.
ChannelEnvironments ==
  { [translator |-> "primary", classifier |-> "primary", llmText |-> AI_pest,
     generator |-> [kind |-> "ok", confidence |-> 95]],
    [translator |-> "nokey", classifier |-> "nokey", llmText |-> AI_unsure,
     generator |-> [kind |-> "nokey", confidence |-> 30]] }

IdleRequest ==
  [ pc |-> "idle", from |-> "", content |-> <<>>, language |-> "en", user |-> 0,
    history |-> <<>>, response |-> <<>> ]

\* A users document; its id is its place in the collection.
userDocument(id, phoneNumber, preferredLanguage) ==
  [id |-> id, phoneNumber |-> phoneNumber, preferredLanguage |-> preferredLanguage,
   county |-> <<>>]

\* A messages document.  The content is left out: no step reads it back
\* except to hand it to the orchestrator as prompt context.
messageDocument(id, userId, direction, timestamp) ==
  [id |-> id, userId |-> userId, direction |-> direction, timestamp |-> timestamp]

\* The catch of processMessage (lines 80-83).
processMessageCatch(q) ==
  [q EXCEPT !.pc = "done", !.response = ChannelApology]

\* An HTTP or webhook handler calls processMessage(message).  The requests
\* are numbered in the order they arrive.
ReceiveMessage(r) ==
  /\ req[r].pc = "idle"
  /\ r > 1 => req[r - 1].pc # "idle"
  /\ \E from \in Phones, message \in ChannelMessages :
       req' = [req EXCEPT ![r] = [IdleRequest EXCEPT !.pc = "getUser", !.from = from,
                                     !.content = message[1], !.language = message[2]]]
  /\ UNCHANGED <<call, users, messages, clock, cache, cacheLog, merge, http, rag, redis, alerts, agent, gen, keys>>

\* Line 16: getUser returns a document with the phone number, or null when
\* there is none or the query fails (database.ts:35-38).
GetUser(r) ==
  /\ req[r].pc = "getUser"
  /\ \/ \E i \in 1..Len(users) :
          /\ users[i].phoneNumber = req[r].from
          /\ req' = [req EXCEPT ![r].pc = "saveInbound", ![r].user = users[i].id]
     \/ req' = [req EXCEPT ![r].pc = "createUser"]
  /\ UNCHANGED <<call, users, messages, clock, cache, cacheLog, merge, http, rag, redis, alerts, agent, gen, keys>>

\* Lines 17-26: createUser adds a document, or throws (database.ts:67-70).
CreateUser(r) ==
  /\ req[r].pc = "createUser"
  /\ \/ /\ users' = Append(users, userDocument(Len(users) + 1, req[r].from, "en"))
        /\ req' = [req EXCEPT ![r].pc = "saveInbound", ![r].user = Len(users) + 1]
     \/ /\ req' = [req EXCEPT ![r] = processMessageCatch(req[r])]
        /\ UNCHANGED users
  /\ UNCHANGED <<call, messages, clock, cache, cacheLog, merge, http, rag, redis, alerts, agent, gen, keys>>

\* A processMessage that goes on to the history without saving the inbound
\* message.
SaveInboundSkipped(r) ==
  /\ req[r].pc = "saveInbound"
  /\ req' = [req EXCEPT ![r].pc = "getMessages"]
  /\ UNCHANGED <<call, users, messages, clock, cache, cacheLog, merge, http, rag, redis, alerts, agent, gen, keys>>

\* Lines 29-39: the inbound message is saved with timestamp new Date(), or
\* saveMessage throws (database.ts:109-112).
SaveInbound(r) ==
  /\ req[r].pc = "saveInbound"
  /\ \/ \E timestamp \in Dates :
          /\ clock' = timestamp
          /\ messages' = messages \cup
               {messageDocument(<<r, "inbound">>, req[r].user, "inbound", timestamp)}
          /\ req' = [req EXCEPT ![r].pc = "getMessages"]
     \/ /\ req' = [req EXCEPT ![r] = processMessageCatch(req[r])]
        /\ UNCHANGED <<messages, clock>>
  /\ UNCHANGED <<call, users, cache, cacheLog, merge, http, rag, redis, alerts, agent, gen, keys>>

messagesOf(userId) == {m \in messages : m.userId = userId}

\* where(userId).orderBy(timestamp, desc).limit(n): the n newest documents;
\* documents of equal timestamp come in the order of their ids, which are
\* random.
newestOf(docs, n) ==
  { T \in SUBSET docs :
      /\ Cardinality(T) = (IF Cardinality(docs) < n THEN Cardinality(docs) ELSE n)
      /\ \A a \in T, b \in docs \ T : a.timestamp >= b.timestamp }

\* where(userId).limit(n), the query used when the index is missing
\* (database.ts:133-150): any n documents.
anyOf(docs, n) ==
  { T \in SUBSET docs :
      Cardinality(T) = (IF Cardinality(docs) < n THEN Cardinality(docs) ELSE n) }

\* What getMessages(userId, n) can return, as sets of documents: the newest,
\* any when the index is missing, none when the query fails (lines 154-157).
getMessages(userId, n) ==
  newestOf(messagesOf(userId), n) \cup anyOf(messagesOf(userId), n) \cup {{}}

RECURSIVE sortedAscending(_)
\* Lines 47-60: the documents sorted by timestamp, oldest first; documents of
\* equal timestamp stay in the order the query returned them.
sortedAscending(docs) ==
  IF docs = {} THEN {<<>>}
  ELSE UNION { { <<m>> \o rest : rest \in sortedAscending(docs \ {m}) } :
               m \in {m \in docs : \A x \in docs : m.timestamp <= x.timestamp} }

\* Lines 61-65: slice(0, -1) and the mapping to turns; a turn is named by the
\* id of its document.
conversationHistoryOf(sorted) ==
  [i \in 1..(Len(sorted) - 1) |-> sorted[i].id]

\* Line 45-65: the history is fetched, sorted and cut.
GetMessages(r) ==
  /\ req[r].pc = "getMessages"
  /\ \E recentMessages \in getMessages(req[r].user, HistoryLimit) :
       \E sorted \in sortedAscending(recentMessages) :
         req' = [req EXCEPT ![r].pc = "orchestrate",
                            ![r].history = conversationHistoryOf(sorted)]
  /\ UNCHANGED <<call, users, messages, clock, cache, cacheLog, merge, http, rag, redis, alerts, agent, gen, keys>>

\* Lines 86-121, as far as the orchestrator reads the context: the user.
extractContext(userId) ==
  [hasUser |-> TRUE, preferredLanguage |-> users[userId].preferredLanguage]

\* The language argument of line 68: none is passed, so processQuery takes
\* its default (orchestrator.ts:24).
languageArgument(q) == "en"

\* Line 68: the whole processQuery call.  It touches neither collection.
Orchestrate(r) ==
  /\ req[r].pc = "orchestrate"
  /\ \E env \in ChannelEnvironments :
       call' = [call EXCEPT ![r] =
         processQueryRun(req[r].content, extractContext(req[r].user), req[r].history,
                         languageArgument(req[r]), env)]
  /\ req' = [req EXCEPT ![r].pc = "saveOutbound"]
  /\ UNCHANGED <<users, messages, clock, cache, cacheLog, merge, http, rag, redis, alerts, agent, gen, keys>>

\* Lines 71-79: the response is saved as the outbound message and returned,
\* or saveMessage throws.
SaveOutbound(r) ==
  /\ req[r].pc = "saveOutbound"
  /\ \/ \E timestamp \in Dates :
          /\ clock' = timestamp
          /\ messages' = messages \cup
               {messageDocument(<<r, "outbound">>, req[r].user, "outbound", timestamp)}
          /\ req' = [req EXCEPT ![r].pc = "done", ![r].response = call[r].result]
     \/ /\ req' = [req EXCEPT ![r] = processMessageCatch(req[r])]
        /\ UNCHANGED <<messages, clock>>
  /\ UNCHANGED <<call, users, cache, cacheLog, merge, http, rag, redis, alerts, agent, gen, keys>>

processMessageStep(r) ==
  \/ ReceiveMessage(r)
  \/ GetUser(r)
  \/ CreateUser(r)
  \/ SaveInbound(r)
  \/ GetMessages(r)
  \/ Orchestrate(r)
  \/ SaveOutbound(r)

\* The messages of an earlier conversation of user 1, older than the clock.
earlierMessages(n) ==
  { messageDocument(<<0, k>>, 1, IF k % 2 = 1 THEN "inbound" ELSE "outbound", k - n - 1) :
      k \in 1..n }

----------------------------------------------------------------------------
(* combineResponses applied to any list of responses *)

\* The longest list of responses merged.
MaxResponses == 3

MergeAgents == {"crop", "pest", "market"}

\* What the BaseAgent.process calls behind the merged responses met.
MergeOutcomes ==
  {[kind |-> "ok", confidence |-> c] : c \in AgentConfidences}
    \cup {[kind |-> "throws", confidence |-> 0]}

\* The AgentResponses BaseAgent.process can return for a valid query.
AgentResponses ==
  { BaseAgentProcess(a, Q_holes, [hasUser |-> TRUE, preferredLanguage |-> "en"], o) :
      a \in MergeAgents, o \in MergeOutcomes }

ResponseLists ==
  UNION { [1..n -> AgentResponses] : n \in 0..MaxResponses }

NoMerge == [applied |-> FALSE, responses |-> <<>>, output |-> <<>>]

ApplyCombineResponses ==
  /\ ~merge.applied
  /\ merge' = [merge EXCEPT !.applied = TRUE,
                            !.output = combineResponses(merge.responses)]
  /\ UNCHANGED <<call, req, users, messages, clock, cache, cacheLog, http, rag, redis, alerts, agent, gen, keys>>

----------------------------------------------------------------------------
(* ResponseCache *)

\* constructor(maxSize, ttl): the capacity and the time to live, in ticks of
\* the clock.
MaxSize == 2

Ttl == 1

\* The clock stops here.
MaxClock == 2

\* hitCount is counted up to here.
MaxHitCount == 1

RECURSIVE collapseWhitespace(_)
\* replace(/\s+/g, ' ')
collapseWhitespace(s) ==
  IF Len(s) = 0 THEN <<>>
  ELSE IF s[1] \in Whitespace
  THEN LET rest == collapseWhitespace(Tail(s))
       IN  IF Len(rest) > 0 /\ rest[1] = " " THEN rest ELSE <<" ">> \o rest
  ELSE <<s[1]>> \o collapseWhitespace(Tail(s))

\* get/set called without a context argument
NoContext == [given |-> FALSE, crop |-> <<>>, region |-> <<>>, farmStage |-> <<>>]

generateKey(query, context) ==
  LET normalizedQuery == collapseWhitespace(trim(toLowerCase(query)))
      contextKey == IF context.given
                    THEN context.crop \o <<"-">> \o context.region \o <<"-">> \o context.farmStage
                    ELSE <<>>
  IN  normalizedQuery \o <<"-">> \o contextKey

QueryA == <<"a">>

QueryPaddedA == <<" ", "A">>

QueryB == <<"b">>

MaizeContext == [given |-> TRUE, crop |-> <<"m">>, region |-> <<>>, farmStage |-> <<>>]

\* The (query, context) pairs get and set are called with: four keys, one of
\* them reached from two spellings of the query.
CacheLookups ==
  { <<QueryA, NoContext>>, <<QueryPaddedA, NoContext>>, <<QueryB, NoContext>>,
    <<QueryA, MaizeContext>>, <<QueryB, MaizeContext>> }

CacheResponses == { <<"r1">>, <<"r2">> }

\* get's null
Null == <<"null">>

cacheHas(key) == \E i \in 1..Len(cache) : cache[i].key = key

cacheIndex(key) == CHOOSE i \in 1..Len(cache) : cache[i].key = key

\* An expiry test that already fails an entry of age ttl.
expiredAtTtl(entry, now) == now - entry.timestamp >= Ttl

\* An expiry test that still passes an entry of age ttl + 1.
expiredLate(entry, now) == now - entry.timestamp > Ttl + 1

\* The expiry test of get (line 44) and clearExpired (line 78).
expired(entry, now) == now - entry.timestamp > Ttl

\* Map.delete
mapDelete(map, key) == SelectSeq(map, LAMBDA e : e.key # key)

\* Map.set: a present key keeps its place, a new one goes last.
mapSet(map, entry) ==
  IF \E i \in 1..Len(map) : map[i].key = entry.key
  THEN [i \in 1..Len(map) |-> IF map[i].key = entry.key THEN entry ELSE map[i]]
  ELSE Append(map, entry)

\* An eviction that takes the entry inserted last.
newestKey(map) == map[Len(map)].key

\* Lines 60-61: entries sorted by timestamp (a stable sort), the first one's
\* key: the first entry in insertion order among those of least timestamp.
oldestKey(map) ==
  LET least == {i \in 1..Len(map) : \A j \in 1..Len(map) : map[i].timestamp <= map[j].timestamp}
  IN  map[CHOOSE i \in least : \A j \in least : i <= j].key

\* A set that never evicts.
mustEvictNever(map, key) == FALSE

\* The eviction test of set (line 59).
mustEvict(map, key) ==
  Len(map) >= MaxSize /\ ~(\E i \in 1..Len(map) : map[i].key = key)

\* The last call on the cache, as far as the properties need it.
\*   set: the key, the response and the time of the call;
\*   get: what it returned, the age of the entry it found under the key
\*        (-1: none), and, when the call before it was a set of the same key,
\*        the time since that set (-1 otherwise) and the response it stored.
NoCacheCall ==
  [ op |-> "none", key |-> <<>>, at |-> 0, response |-> Null,
    result |-> Null, foundAge |-> -1, sinceSet |-> -1 ]

\* sets: the keys set since the cache was last empty, while they are
\* distinct and at most MaxSize + 1; firstAt: the time of the first of them;
\* void: the run of sets is no longer one of distinct keys.
NoCacheLog == [last |-> NoCacheCall, sets |-> <<>>, firstAt |-> 0, void |-> FALSE]

\* get(query, context)
CacheGet(query, context) ==
  LET key == generateKey(query, context)
      present == cacheHas(key)
      entry == cache[cacheIndex(key)]
      hit == present /\ ~expired(entry, clock)
      afterSet == cacheLog.last.op = "set" /\ cacheLog.last.key = key
  IN  /\ hit => entry.hitCount < MaxHitCount
      /\ cache' = IF ~present THEN cache
                  ELSE IF expired(entry, clock) THEN mapDelete(cache, key)
                  ELSE [cache EXCEPT ![cacheIndex(key)].hitCount = @ + 1]
      /\ cacheLog' = [cacheLog EXCEPT !.last =
           [ NoCacheCall EXCEPT
               !.op = "get",
               !.result = IF hit THEN entry.response ELSE Null,
               !.foundAge = IF present THEN clock - entry.timestamp ELSE -1,
               !.sinceSet = IF afterSet THEN clock - cacheLog.last.at ELSE -1,
               !.response = IF afterSet THEN cacheLog.last.response ELSE Null ]]
      /\ UNCHANGED <<call, req, users, messages, clock, merge, http, rag, redis, alerts, agent, gen, keys>>

\* set(query, response, context)
CacheSet(query, response, context) ==
  LET key == generateKey(query, context)
      kept == IF mustEvict(cache, key) THEN mapDelete(cache, oldestKey(cache)) ELSE cache
      repeated == \E i \in 1..Len(cacheLog.sets) : cacheLog.sets[i] = key
      void == cacheLog.void \/ repeated \/ Len(cacheLog.sets) > MaxSize
  IN  /\ cache' = mapSet(kept, [key |-> key, response |-> response,
                                timestamp |-> clock, hitCount |-> 0])
      /\ cacheLog' =
           [ last |-> [ NoCacheCall EXCEPT !.op = "set", !.key = key, !.at = clock,
                                           !.response = response ],
             sets |-> IF void THEN <<>> ELSE Append(cacheLog.sets, key),
             firstAt |-> IF void THEN 0
                         ELSE IF Len(cacheLog.sets) = 0 THEN clock
                         ELSE cacheLog.firstAt,
             void |-> void ]
      /\ UNCHANGED <<call, req, users, messages, clock, merge, http, rag, redis, alerts, agent, gen, keys>>

\* clearExpired(), the 30-minute sweep
CacheClearExpired ==
  /\ cache' = SelectSeq(cache, LAMBDA e : ~expired(e, clock))
  /\ cacheLog' = [cacheLog EXCEPT !.last = [NoCacheCall EXCEPT !.op = "clearExpired", !.at = clock]]
  /\ UNCHANGED <<call, req, users, messages, clock, merge, http, rag, redis, alerts, agent, gen, keys>>

\* clear()
CacheClear ==
  /\ cache' = <<>>
  /\ cacheLog' = [NoCacheLog EXCEPT !.last = [NoCacheCall EXCEPT !.op = "clear", !.at = clock]]
  /\ UNCHANGED <<call, req, users, messages, clock, merge, http, rag, redis, alerts, agent, gen, keys>>

\* Date.now() advances.
Tick ==
  /\ clock < MaxClock
  /\ clock' = clock + 1
  /\ UNCHANGED <<call, req, users, messages, cache, cacheLog, merge, http, rag, redis, alerts, agent, gen, keys>>

----------------------------------------------------------------------------
(* RedisCache: Redis in front of an embedded ResponseCache *)

\* The (query, context) pairs the RedisCache is called with.
RedisLookups == { <<QueryA, NoContext>>, <<QueryB, NoContext>> }

\* new RedisCache(maxSize, ttl): the capacity of the ResponseCache it embeds,
\* and the time to live of both, in ticks of the clock.
RedisMaxSize == 1

RedisTtl == 3

\* hitCount is counted up to here in the RedisCache.
RedisMaxHitCount == 2

\* The RedisCache is called this many times.
MaxRedisCalls == 4

\* The clock of the RedisCache stops here.
RedisMaxClock == 4

\* ResponseCache.get as a function of the map: the map it leaves and what it
\* returns.
fallbackGet(map, key, now) ==
  IF ~(\E i \in 1..Len(map) : map[i].key = key)
  THEN [map |-> map, result |-> Null, raised |-> FALSE]
  ELSE LET i == CHOOSE i \in 1..Len(map) : map[i].key = key
       IN  IF now - map[i].timestamp > RedisTtl
           THEN [map |-> mapDelete(map, key), result |-> Null, raised |-> FALSE]
           ELSE [map |-> [map EXCEPT ![i].hitCount = @ + 1],
                 result |-> map[i].response, raised |-> FALSE]

\* ResponseCache.set as a function of the map.
fallbackSet(map, key, response, now) ==
  mapSet(IF Len(map) >= RedisMaxSize /\ ~(\E i \in 1..Len(map) : map[i].key = key)
         THEN mapDelete(map, oldestKey(map))
         ELSE map,
         [key |-> key, response |-> response, timestamp |-> now, hitCount |-> 0])

\* RedisCache.generateKey: the key of the embedded cache behind a prefix.
redisKey(key) == <<"shambasmart:cache:">> \o key

\* SET key value PX ttl: the value is gone ttl after it was set.
redisLive(store, now) == SelectSeq(store, LAMBDA e : now < e.expiresAt)

redisHas(store, rkey, now) ==
  \E i \in 1..Len(store) : store[i].key = rkey /\ now < store[i].expiresAt

redisEntry(store, rkey) == store[CHOOSE i \in 1..Len(store) : store[i].key = rkey]

\* A get whose catch gives up: nothing is returned and the embedded cache is
\* not asked.
redisGetCatchGivesUp(map, key, now) ==
  [map |-> map, result |-> Null, raised |-> FALSE]

\* The catch of get (lines 343-347): the embedded cache answers.
redisGetCatch(map, key, now) == fallbackGet(map, key, now)

\* initializeRedis has connected (lines 304-306).
RedisConnect ==
  /\ ~redis.useRedis
  /\ redis' = [redis EXCEPT !.useRedis = TRUE]
  /\ UNCHANGED <<call, req, users, messages, clock, cache, cacheLog, merge, http, rag, alerts, agent, gen, keys>>

\* get(query, context), lines 327-350.  outcome: the Redis commands answer,
\* redis.get throws, or the redis.set that writes the hit count back throws.
RedisGet(query, context, outcome) ==
  LET key == generateKey(query, context)
      rkey == redisKey(key)
      found == /\ redis.useRedis
               /\ outcome # "getThrows"
               /\ redisHas(redis.store, rkey, clock)
      failed == /\ redis.useRedis
                /\ outcome = "getThrows" \/ (found /\ outcome = "setThrows")
      served == found /\ ~failed
      entry == redisEntry(redis.store, rkey)
      local == fallbackGet(cache, key, clock)
      returned == IF served
                  THEN [map |-> cache, result |-> entry.response, raised |-> FALSE]
                  ELSE IF failed THEN redisGetCatch(cache, key, clock)
                  ELSE local
  IN  /\ redis.calls < MaxRedisCalls
      /\ served => entry.hitCount < RedisMaxHitCount
      /\ ~served /\ local.result # Null
           => \A i \in 1..Len(cache) : cache[i].key = key => cache[i].hitCount < RedisMaxHitCount
      /\ cache' = returned.map
      /\ redis' =
           [ redis EXCEPT
               !.calls = @ + 1,
               !.store = IF served
                         THEN mapSet(redisLive(@, clock),
                                     [entry EXCEPT !.hitCount = @ + 1,
                                                   !.expiresAt = clock + RedisTtl])
                         ELSE IF redis.useRedis /\ outcome # "getThrows"
                         THEN redisLive(@, clock)
                         ELSE @,
               !.last = [ NoRedisCall EXCEPT
                            !.op = "get", !.key = key, !.at = clock, !.failed = failed,
                            !.backend = IF served THEN "redis" ELSE "memory",
                            !.result = returned.result, !.local = local.result,
                            !.raised = returned.raised,
                            !.age = IF served THEN clock - entry.timestamp ELSE -1,
                            !.hitCount = IF served THEN entry.hitCount + 1 ELSE 0 ] ]
      /\ UNCHANGED <<call, req, users, messages, clock, cacheLog, merge, http, rag, alerts, agent, gen, keys>>

\* set(query, response, context), lines 352-377.  outcome: redis.set answers
\* or throws; the embedded cache is written on every path.
RedisSet(query, response, context, outcome) ==
  LET key == generateKey(query, context)
      failed == redis.useRedis /\ outcome = "setThrows"
  IN  /\ redis.calls < MaxRedisCalls
      /\ cache' = fallbackSet(cache, key, response, clock)
      /\ redis' =
           [ redis EXCEPT
               !.calls = @ + 1,
               !.store = IF redis.useRedis /\ ~failed
                         THEN mapSet(redisLive(@, clock),
                                     [key |-> redisKey(key), response |-> response,
                                      timestamp |-> clock, hitCount |-> 0,
                                      expiresAt |-> clock + RedisTtl])
                         ELSE @,
               !.last = [ NoRedisCall EXCEPT
                            !.op = "set", !.key = key, !.at = clock,
                            !.response = response, !.failed = failed,
                            !.backend = IF redis.useRedis /\ ~failed THEN "redis"
                                        ELSE "memory" ] ]
      /\ UNCHANGED <<call, req, users, messages, clock, cacheLog, merge, http, rag, alerts, agent, gen, keys>>

\* Date.now() and the clock of the Redis server advance; the server drops
\* the values whose time has come.
RedisTick ==
  /\ clock < RedisMaxClock
  /\ clock' = clock + 1
  /\ redis' = [redis EXCEPT !.store = redisLive(@, clock + 1)]
  /\ UNCHANGED <<call, req, users, messages, cache, cacheLog, merge, http, rag, alerts, agent, gen, keys>>

----------------------------------------------------------------------------
(* The HTTP endpoints of the channels: the webhooks and the web API *)

Webhooks == {"whatsapp", "sms", "ussd", "voice"}

WebApi == {"chat", "history", "location"}

\* The requests an endpoint receives, by what its handler tests:
\*   whatsapp  a text message; any other notification
\*   sms       a body with from and text; a body without
\*   ussd      no text (the menu); "0"; a menu choice 1-5; any other choice
\*   voice     a SpeechResult; none (the greeting)
\*   chat      phoneNumber and message; one of them missing
\*   history   phoneNumber; none
\*   location  phoneNumber, latitude and longitude; one of them missing
HttpEvents ==
  { <<"whatsapp", "message">>, <<"whatsapp", "other">>,
    <<"sms", "message">>, <<"sms", "other">>,
    <<"ussd", "menu">>, <<"ussd", "exit">>, <<"ussd", "selection">>, <<"ussd", "invalid">>,
    <<"voice", "speech">>, <<"voice", "greeting">>,
    <<"chat", "message">>, <<"chat", "missing">>,
    <<"history", "query">>, <<"history", "missing">>,
    <<"location", "update">>, <<"location", "missing">> }

\* The requests whose handler awaits processMessage.
ProcessedEvents ==
  { <<"whatsapp", "message">>, <<"sms", "message">>, <<"ussd", "selection">>,
    <<"voice", "speech">>, <<"chat", "message">> }

\* getQuestionFromMenu('1')
MenuQuestion == <<"I", " ", "n", "e", "e", "d", " ", "c", "r", "o", "p", " ", "a", "d", "v", "i", "c", "e">>

\* The county the location service finds for the coordinates.
County == <<"Nairobi">>

\* The handler starts: it answers at once, or awaits processMessage or the
\* store.  Only the web channel puts a language in the message's metadata.
HttpReceive(r) ==
  /\ http[r].pc = "idle"
  /\ req[r].pc = "idle"
  /\ \E e \in HttpEvents, from \in Phones, message \in ChannelMessages :
       IF e \in ProcessedEvents
       THEN /\ http' = [http EXCEPT ![r] = [IdleHttp EXCEPT !.pc = "processing",
                                              !.endpoint = e[1], !.event = e[2]]]
            /\ req' = [req EXCEPT ![r] =
                 [IdleRequest EXCEPT
                    !.pc = "getUser", !.from = from,
                    !.content = IF e[1] = "ussd" THEN MenuQuestion ELSE message[1],
                    !.language = IF e[1] = "chat" THEN message[2] ELSE "en"]]
       ELSE /\ http' = [http EXCEPT ![r] =
                 [ pc |-> IF e[2] \in {"query", "update"} THEN e[1] ELSE "responded",
                   endpoint |-> e[1], event |-> e[2],
                   status |-> IF e[2] \in {"query", "update"} THEN 0
                              ELSE IF e[2] = "missing" THEN 400 ELSE 200 ]]
            /\ UNCHANGED req
  /\ UNCHANGED <<call, users, messages, clock, cache, cacheLog, merge, rag, redis, alerts, agent, gen, keys>>

\* processMessage has returned.  The WhatsApp and SMS handlers push the reply
\* with sendMessage, which rethrows what the provider call throws, and answer
\* 200, or 500 from their catch; the USSD, voice and chat handlers send the
\* reply in the response.
HttpReply(r) ==
  /\ http[r].pc = "processing"
  /\ req[r].pc = "done"
  /\ \/ http' = [http EXCEPT ![r].pc = "responded", ![r].status = 200]
     \/ /\ http[r].endpoint \in {"whatsapp", "sms"}
        /\ http' = [http EXCEPT ![r].pc = "responded", ![r].status = 500]
  /\ UNCHANGED <<call, req, users, messages, clock, cache, cacheLog, merge, rag, redis, alerts, agent, gen, keys>>

\* GET /api/chat/history: no user (none, or getUser failed) gives an empty
\* list; otherwise getMessages, which returns [] when it fails, gives the
\* list.  Both are answered 200.
HistoryReply(r) ==
  /\ http[r].pc = "history"
  /\ \/ http' = [http EXCEPT ![r].pc = "responded", ![r].status = 200]
     \/ \E i \in 1..Len(users) : \E found \in getMessages(users[i].id, HistoryLimit) :
          http' = [http EXCEPT ![r].pc = "responded", ![r].status = 200]
  /\ UNCHANGED <<call, req, users, messages, clock, cache, cacheLog, merge, rag, redis, alerts, agent, gen, keys>>

\* POST /api/user/location: no user (none, or getUser failed) is answered
\* 404; the county is looked up (the location service falls back to its own
\* table when the geocoder fails) and the user updated, answered 200; when
\* updateUser throws (database.ts:80-83) the catch answers 500.
LocationReply(r) ==
  /\ http[r].pc = "location"
  /\ \/ /\ http' = [http EXCEPT ![r].pc = "responded", ![r].status = 404]
        /\ UNCHANGED users
     \/ \E i \in 1..Len(users) :
          /\ users' = [users EXCEPT ![i].county = County]
          /\ http' = [http EXCEPT ![r].pc = "responded", ![r].status = 200]
     \/ /\ Len(users) > 0
        /\ http' = [http EXCEPT ![r].pc = "responded", ![r].status = 500]
        /\ UNCHANGED users
  /\ UNCHANGED <<call, req, messages, clock, cache, cacheLog, merge, rag, redis, alerts, agent, gen, keys>>

httpStep(r) ==
  \/ HttpReceive(r)
  \/ GetUser(r)
  \/ CreateUser(r)
  \/ SaveInbound(r)
  \/ GetMessages(r)
  \/ Orchestrate(r)
  \/ SaveOutbound(r)
  \/ HttpReply(r)
  \/ HistoryReply(r)
  \/ LocationReply(r)

----------------------------------------------------------------------------
(* RAGService.retrieve *)

\* The sequences made of some of the elements of s, in the order of s.
RECURSIVE subsequences(_)
subsequences(s) ==
  IF s = <<>> THEN {<<>>}
  ELSE LET rest == subsequences(Tail(s))
       IN  rest \cup {<<Head(s)>> \o t : t \in rest}

\* Array.prototype.slice(from, to) with 0 <= from.
slice(s, from, to) ==
  SubSeq(s, from + 1, IF to < Len(s) THEN to ELSE Len(s))

\* What dataSourceService.searchAll can return: the blocks of the sources
\* that matched, in the order searchAll visits them.
LocalResults ==
  subsequences(<< "PEST INFORMATION", "LIVESTOCK DISEASE INFORMATION",
                  "PLANTING CALENDAR", "SOIL MANAGEMENT" >>)

\* What dataSourceService.getAllDataAsText can return: one block for every
\* source that holds data.
GeneralData ==
  subsequences(<< "PEST AND DISEASE INFORMATION", "LIVESTOCK DISEASE INFORMATION",
                  "PLANTING CALENDAR INFORMATION", "SOIL MANAGEMENT TIPS" >>)

\* How the external similarity search goes:
\*   disabled      USE_MATCHING_ENGINE is 'false'
\*   unconfigured  the project, index or endpoint id is not set
\*   noEmbedding   generateEmbedding returns [] (it caught its own failure)
\*   throws        generateEmbedding or queryMatchingEngine throws
\*   none          the query returns no result
\*   results       the query returns results
ExternalOutcomes == {"disabled", "unconfigured", "noEmbedding", "throws", "none", "results"}

\* The text fields of the results the external search returns; a result may
\* have none.
OnlineResults == { <<"online 1">>, <<"", "online 2">> }

\* map(r => r.text || '').filter(Boolean)
onlineTexts(results) == SelectSeq(results, LAMBDA t : t # "")

\* Lines 48-56: the external search, when it is made.
externalSearch(external, online) ==
  CASE external = "throws" -> [threw |-> TRUE, texts |-> <<>>]
    [] external = "results" -> [threw |-> FALSE, texts |-> onlineTexts(online)]
    [] OTHER -> [threw |-> FALSE, texts |-> <<>>]

\* A retrieve without the inner try: what the external search throws goes on
\* to the outer catch.
matchingEngineRethrows(search) == search

\* The inner catch of lines 59-65: the failure is logged and retrieve goes
\* on with what it has.
matchingEngineCatch(search) == [search EXCEPT !.threw = FALSE]

\* The outer catch of lines 79-87.
retrieveCatch(general, generalThrows) ==
  [result |-> IF generalThrows THEN <<>> ELSE slice(general, 0, 2), raised |-> FALSE]

\* retrieve(query, context), lines 25-88, on what the data sources and the
\* external search give it.
retrieve(local, localThrows, general, generalThrows, external, online) ==
  IF localThrows THEN retrieveCatch(general, generalThrows)
  ELSE LET search == matchingEngineCatch(externalSearch(external, online))
           allResults == local \o search.texts
       IN  IF search.threw THEN retrieveCatch(general, generalThrows)
           ELSE IF Len(allResults) = 0
           THEN IF generalThrows THEN retrieveCatch(general, generalThrows)
                ELSE [result |-> slice(general, 0, 3), raised |-> FALSE]
           ELSE [result |-> allResults, raised |-> FALSE]

\* An agent calls retrieve.
Retrieve ==
  /\ ~rag.applied
  /\ LET returned == retrieve(rag.local, rag.localThrows, rag.general, rag.generalThrows,
                              rag.external, rag.online)
     IN  rag' = [rag EXCEPT !.applied = TRUE, !.result = returned.result,
                            !.raised = returned.raised]
  /\ UNCHANGED <<call, req, users, messages, clock, cache, cacheLog, merge, http, redis, alerts, agent, gen, keys>>

----------------------------------------------------------------------------
(* AlertService: a run of the scheduler *)

\* The run makes at most this many sendAlert calls.
MaxAlerts == 3

AlertUsers == {"u1", "u2"}

\* checkAndSendAlerts runs the weather check, the pest check and the market
\* check in this order.
AlertTypes == <<"weather", "pest", "market">>

typeRank(type) == CHOOSE i \in 1..Len(AlertTypes) : AlertTypes[i] = type

\* The sendAlert calls of a run, in the order the loops of the three checks
\* make them: <<userId, type>>.
AlertRuns ==
  { run \in UNION { [1..n -> AlertUsers \X {"weather", "pest", "market"}] : n \in 1..MaxAlerts } :
      \A i \in 1..(Len(run) - 1) : typeRank(run[i][2]) <= typeRank(run[i + 1][2]) }

\* What happened in the sendAlert call for the i-th alert of the run.
attempt(a, step, ok) ==
  [a EXCEPT !.attempts = Append(@, [alert |-> a.next, step |-> step, ok |-> ok])]

\* sendAlert has returned: the loop goes on to its next call, or the run is
\* over.
nextAlert(a) ==
  IF a.next < Len(a.run) THEN [a EXCEPT !.next = @ + 1, !.pc = "getUserById"]
  ELSE [a EXCEPT !.pc = "finished"]

\* An SMS failure that escapes sendAlert and ends the run.
smsCatchAborts(a) == [a EXCEPT !.pc = "finished"]

\* The catch of lines 420-422: the failure of both channels is logged.
smsCatch(a) == nextAlert(a)

\* The scheduler calls checkAndSendAlerts.
CheckAndSendAlerts ==
  /\ alerts.pc = "idle"
  /\ \E run \in AlertRuns :
       alerts' = [NoAlertRun EXCEPT !.run = run, !.next = 1, !.pc = "getUserById"]
  /\ UNCHANGED <<call, req, users, messages, clock, cache, cacheLog, merge, http, rag, redis, agent, gen, keys>>

\* Lines 390-394: getUserById returns the user, or null when there is none or
\* the query fails (database.ts:183-185); without a user sendAlert returns.
AlertGetUser ==
  /\ alerts.pc = "getUserById"
  /\ \/ alerts' = [alerts EXCEPT !.pc = "saveAlert"]
     \/ alerts' = nextAlert(attempt(alerts, "getUserById", FALSE))
  /\ UNCHANGED <<call, req, users, messages, clock, cache, cacheLog, merge, http, rag, redis, agent, gen, keys>>

\* Lines 397-404: saveAlert stores the alert, or throws (database.ts:168-171)
\* into the catch of lines 424-426.
AlertSave ==
  /\ alerts.pc = "saveAlert"
  /\ \/ alerts' = [alerts EXCEPT !.pc = "whatsapp"]
     \/ alerts' = nextAlert(attempt(alerts, "saveAlert", FALSE))
  /\ UNCHANGED <<call, req, users, messages, clock, cache, cacheLog, merge, http, rag, redis, agent, gen, keys>>

\* Lines 410-414: the WhatsApp push succeeds, or throws into the SMS
\* fallback.
AlertWhatsApp ==
  /\ alerts.pc = "whatsapp"
  /\ \/ alerts' = nextAlert(attempt(alerts, "whatsapp", TRUE))
     \/ alerts' = [attempt(alerts, "whatsapp", FALSE) EXCEPT !.pc = "sms"]
  /\ UNCHANGED <<call, req, users, messages, clock, cache, cacheLog, merge, http, rag, redis, agent, gen, keys>>

\* Lines 415-422: the SMS push succeeds, or throws into its catch.
AlertSms ==
  /\ alerts.pc = "sms"
  /\ \/ alerts' = nextAlert(attempt(alerts, "sms", TRUE))
     \/ alerts' = smsCatch(attempt(alerts, "sms", FALSE))
  /\ UNCHANGED <<call, req, users, messages, clock, cache, cacheLog, merge, http, rag, redis, agent, gen, keys>>

----------------------------------------------------------------------------
(* InputValidator.validate and the validation short-circuit of process *)

\* Short texts are up to this long.
MaxInputLength == 3

InputChars == {"a", " ", "<", ">", ".", "/"}

\* count times the character.
repeat(c, count) == [i \in 1..count |-> c]

\* The texts validate is applied to: every short text, and long texts around
\* the maximum length: one character under it, exactly it, exactly it between
\* blanks, one and two characters over it, and over it with a tag at the cut.
ValidatorInputs ==
  UNION { [1..n -> InputChars] : n \in 0..MaxInputLength }
    \cup { repeat("a", MaxLength - 1),
           repeat("a", MaxLength),
           <<" ">> \o repeat("a", MaxLength) \o <<" ">>,
           repeat("a", MaxLength + 1),
           repeat("a", MaxLength + 2),
           repeat("a", MaxLength - 2) \o <<"<", "a", ">", "a">> }

\* The context and the generation the agent runs with: a user, and a
\* generator that answers.
AgentContext == [hasUser |-> TRUE, preferredLanguage |-> "en"]

\* An agent is asked: the input picked in Init is validated and processed.
ValidateAndProcess ==
  /\ ~agent.applied
  /\ agent' = [ agent EXCEPT
                  !.applied = TRUE,
                  !.validation = validate(agent.input),
                  !.result = BaseAgentProcess("crop", agent.input, AgentContext,
                                              [kind |-> "ok", confidence |-> 80]) ]
  /\ UNCHANGED <<call, req, users, messages, clock, cache, cacheLog, merge, http, rag, redis, alerts, gen, keys>>

----------------------------------------------------------------------------
(* BaseAgent.calculateConfidence, in hundredths *)

\* Up to this many passages are retrieved.
MaxDocs == 6

\* Up to this many keywords are found in the query.
MaxKeywords == 14

min(a, b) == IF a < b THEN a ELSE b

max(a, b) == IF a > b THEN a ELSE b

\* A base confidence that falls with the number of passages.
baseConfidenceInverted(docs) ==
  IF docs >= 5 THEN 30 ELSE IF docs >= 3 THEN 50 ELSE IF docs > 0 THEN 80 ELSE 90

\* Lines 92-95: the base confidence from the number of passages.
baseConfidence(docs) ==
  IF docs >= 5 THEN 90 ELSE IF docs >= 3 THEN 80 ELSE IF docs > 0 THEN 50 ELSE 30

\* The query analyses calculateConfidence is given: none, or a complexity
\* and a number of keywords.
QueryAnalyses ==
  {[given |-> FALSE, complexity |-> "", keywords |-> 0]}
    \cup {[given |-> TRUE, complexity |-> c, keywords |-> k] :
            c \in {"simple", "moderate", "complex"}, k \in 0..MaxKeywords}

\* calculateConfidence (lines 86-113).  Every value it handles is a multiple
\* of 0.05, so the final rounding to two decimals leaves the hundredths as
\* they are.
calculateConfidence(docs, analysis) ==
  LET base == baseConfidence(docs)
      simple == IF analysis.given /\ analysis.complexity = "simple" /\ docs > 0
                THEN min(base + 10, 95) ELSE base
      complex == IF analysis.given /\ analysis.complexity = "complex" /\ docs < 3
                 THEN max(simple - 20, 30) ELSE simple
  IN  IF analysis.given /\ analysis.keywords > 0
      THEN min(complex + 5 * analysis.keywords, 95)
      ELSE complex

\* The confidence is calculated for both numbers of passages.
CalculateConfidence ==
  /\ ~agent.applied
  /\ agent' = [ agent EXCEPT
                  !.applied = TRUE,
                  !.confidenceFewer = calculateConfidence(agent.fewer, agent.analysis),
                  !.confidenceMore = calculateConfidence(agent.more, agent.analysis) ]
  /\ UNCHANGED <<call, req, users, messages, clock, cache, cacheLog, merge, http, rag, redis, alerts, gen, keys>>

----------------------------------------------------------------------------
(* generateText as the agents call it: the response cache in front of the  *)
(* Vertex AI backend and the API-key backend                               *)

\* generateText calls in one run.
MaxGenerations == 2

\* prompt.length < 500 (lines 36, 60 and 139)
CacheablePromptLength == 500

\* The text of the crop advisor's prompt template outside its interpolations.
CropPromptFixed == 1092

\* The text of the extension agent's prompt template outside its
\* interpolations.
ExtensionPromptFixed == 295

\* The agents whose generateResponse is followed.
GenAgents == {"crop", "extension"}

GenQueries == { QueryA, <<"a", "?">> }

\* conversationHistory: absent or empty, or one earlier turn.
GenHistories == { <<>>, <<[role |-> "user", content |-> <<"h">>]>> }

\* The total length of the interpolated texts the model does not follow
\* (the passages, the planting calendar, the soil data, the farmer's crop and
\* region).
InterpolatedLengths == {0, 40}

\* process.env as generateText reads it.
GenEnvironments ==
  { [projectId |-> TRUE, credentialsPath |-> TRUE, apiKey |-> TRUE],
    [projectId |-> TRUE, credentialsPath |-> TRUE, apiKey |-> FALSE],
    [projectId |-> TRUE, credentialsPath |-> FALSE, apiKey |-> TRUE],
    [projectId |-> FALSE, credentialsPath |-> FALSE, apiKey |-> FALSE] }

\* What a backend generates: a text, and a text of white space only.
GeneratedTexts == { <<"advice">>, <<" ">> }

WordChars == UpperChars \cup LowerChars \cup {"0", "1", "2", "3", "4", "5", "6", "7", "8", "9", "_"}

\* /\b(word)\b/ matches in s
matchesWord(s, w) ==
  \E i \in 1..(Len(s) - Len(w) + 1) :
    /\ SubSeq(s, i, i + Len(w) - 1) = w
    /\ i = 1 \/ s[i - 1] \notin WordChars
    /\ i + Len(w) - 1 = Len(s) \/ s[i + Len(w)] \notin WordChars

questionWords ==
  << <<"h", "o", "w">>, <<"w", "h", "a", "t">>, <<"w", "h", "e", "n">>,
     <<"w", "h", "e", "r", "e">>, <<"w", "h", "y">>,
     <<"t", "e", "l", "l", " ", "m", "e">>,
     <<"e", "x", "p", "l", "a", "i", "n">>,
     <<"d", "e", "s", "c", "r", "i", "b", "e">>, <<"l", "i", "s", "t">>,
     <<"p", "r", "o", "v", "i", "d", "e">> >>

\* The extension agent's isSimpleQuery.
isSimpleQuery(query) ==
  /\ Len(trim(toLowerCase(query))) < 30
  /\ ~includes(toLowerCase(query), <<"?">>)
  /\ ~(\E i \in 1..Len(questionWords) : matchesWord(toLowerCase(query), questionWords[i]))

RECURSIVE historyLinesLength(_, _)
\* The length of the lines of the last turns, joined by line breaks; speaker
\* is the length of the name given to the user.
historyLinesLength(turns, speaker) ==
  IF Len(turns) = 0 THEN 0
  ELSE (IF turns[1].role = "user" THEN speaker ELSE 3) + 2 + Len(turns[1].content)
       + (IF Len(turns) > 1 THEN 1 ELSE 0)
       + historyLinesLength(Tail(turns), speaker)

\* conversationHistory.slice(-3)
lastTurns(history) ==
  SubSeq(history, max(1, Len(history) - 2), Len(history))

\* prompt.length of the prompt the agent builds.
promptLength(agentName, query, history, language, other) ==
  LET respondIn == IF language = "sw" THEN 9 ELSE 7
  IN  IF agentName = "extension"
      THEN ExtensionPromptFixed + Len(query) + other + respondIn
           + (IF isSimpleQuery(query) THEN 215 ELSE 550)
           + (IF Len(history) > 0
              THEN 22 + historyLinesLength(lastTurns(history), 17) + 67
              ELSE 0)
      ELSE CropPromptFixed + Len(query) + other + respondIn
           + (IF Len(history) > 0
              THEN 22 + historyLinesLength(lastTurns(history), 6) + 221
              ELSE 0)

\* The prompt as far as the cache key tells prompts apart: the template and
\* the texts interpolated into it.
promptOf(agentName, query, history, language, other) ==
  <<agentName, language>> \o query
    \o [i \in 1..Len(history) |-> history[i].role] \o <<"+">>
    \o [i \in 1..other |-> "."]

\* const useCache = !conversationHistory || conversationHistory.length === 0
useCacheOf(history) == Len(history) = 0

\* A cache guard that lets every call through.
cacheableAlways(useCache, length) == TRUE

\* useCache && prompt.length < 500
cacheable(useCache, length) == useCache /\ length < CacheablePromptLength

\* A configuration test that never finds Vertex AI configured.
vertexNeverConfigured(env) == FALSE

\* projectId && credentialsPath
vertexConfigured(env) == env.projectId /\ env.credentialsPath

\* responseCache.get(prompt): the map after the call and what it returned.
responseCacheGet(map, prompt, now) ==
  LET key == generateKey(prompt, NoContext)
      present == \E i \in 1..Len(map) : map[i].key = key
      at == CHOOSE i \in 1..Len(map) : map[i].key = key
  IN  IF ~present THEN [map |-> map, result |-> Null]
      ELSE IF expired(map[at], now)
      THEN [map |-> mapDelete(map, key), result |-> Null]
      ELSE [ map |-> [map EXCEPT ![at].hitCount = min(@ + 1, MaxHitCount)],
             result |-> map[at].response ]

\* responseCache.set(prompt, response)
responseCacheSet(map, prompt, response, now) ==
  LET key == generateKey(prompt, NoContext)
      kept == IF mustEvict(map, key) THEN mapDelete(map, oldestKey(map)) ELSE map
  IN  mapSet(kept, [key |-> key, response |-> response,
                    timestamp |-> now, hitCount |-> 0])

\* A JavaScript string is truthy when it is not empty.
truthy(text) == text # Null /\ Len(text) > 0

\* The call that ended last, as the next call finds it.
NoPreviousGeneration ==
  [ended |-> FALSE, prompt |-> <<>>, useCache |-> FALSE, succeeded |-> FALSE,
   result |-> Null, at |-> 0]

\* No generateText call yet.
NoGeneration ==
  [ pc |-> "idle", calls |-> 0, previous |-> NoPreviousGeneration,
    agent |-> "", history |-> <<>>, prompt |-> <<>>, promptLength |-> 0,
    useCache |-> FALSE,
    env |-> [projectId |-> FALSE, credentialsPath |-> FALSE, apiKey |-> FALSE],
    before |-> <<>>, at |-> 0, backends |-> <<>>, primary |-> "none",
    secondary |-> "none", generated |-> Null, result |-> Null ]

previousOf(g) ==
  [ended |-> TRUE, prompt |-> g.prompt, useCache |-> g.useCache,
   succeeded |-> g.generated # Null, result |-> g.result, at |-> g.at]

\* The return of generateText.
generateTextReturn(g, text) == [g EXCEPT !.pc = "done", !.result = text]

\* Lines 106-110: no API key ends the call, else the API-key backend is next.
secondaryOrApology(g) ==
  IF g.env.apiKey THEN [g EXCEPT !.pc = "secondary"]
  ELSE generateTextReturn(g, ApologyNotConfigured)

\* generateResponse builds the prompt and calls generateText, which runs to
\* its first await: the cache read and the choice of the backend.
GenerateResponse(agentName, query, history, language, other, env) ==
  LET prompt == promptOf(agentName, query, history, language, other)
      length == promptLength(agentName, query, history, language, other)
      useCache == useCacheOf(history)
      read == IF cacheable(useCache, length)
              THEN responseCacheGet(cache, prompt, clock)
              ELSE [map |-> cache, result |-> Null]
      entered == [ NoGeneration EXCEPT
                     !.calls = gen.calls + 1,
                     !.previous = IF gen.pc = "done" THEN previousOf(gen) ELSE gen.previous,
                     !.agent = agentName, !.history = history,
                     !.prompt = prompt, !.promptLength = length,
                     !.useCache = useCache, !.env = env,
                     !.before = cache, !.at = clock ]
  IN  /\ gen.pc \in {"idle", "done"}
      /\ gen.calls < MaxGenerations
      /\ cache' = read.map
      /\ gen' = IF truthy(read.result)
                THEN generateTextReturn(entered, read.result)
                ELSE IF vertexConfigured(env)
                THEN [entered EXCEPT !.pc = "primary"]
                ELSE secondaryOrApology(entered)
      /\ UNCHANGED <<call, req, users, messages, clock, cacheLog, merge, http, rag, redis, alerts, agent, keys>>

\* generateTextWithVertexAI settles: with a text, with no text (it throws),
\* or with a failed request.
GenerateTextWithVertexAI(outcome, llmText) ==
  LET invoked == [gen EXCEPT !.backends = Append(@, "vertex"), !.primary = outcome]
      result == cleanResponse(llmText)
  IN  /\ gen.pc = "primary"
      /\ IF outcome = "text"
         THEN /\ cache' = IF cacheable(gen.useCache, gen.promptLength)
                          THEN responseCacheSet(cache, gen.prompt, result, clock)
                          ELSE cache
              /\ gen' = generateTextReturn([invoked EXCEPT !.generated = result], result)
         ELSE /\ cache' = cache
              /\ gen' = secondaryOrApology(invoked)
      /\ UNCHANGED <<call, req, users, messages, clock, cacheLog, merge, http, rag, redis, alerts, agent, keys>>

\* model.generateContent of the API-key backend settles: with a text, with
\* an empty text, or with a failed request.
GenerateContent(outcome, llmText) ==
  LET invoked == [gen EXCEPT !.backends = Append(@, "apiKey"), !.secondary = outcome]
      text == cleanResponse(llmText)
  IN  /\ gen.pc = "secondary"
      /\ CASE outcome = "text" ->
                /\ cache' = IF cacheable(gen.useCache, gen.promptLength)
                            THEN responseCacheSet(cache, gen.prompt, text, clock)
                            ELSE cache
                /\ gen' = IF truthy(text)
                          THEN generateTextReturn([invoked EXCEPT !.generated = text], text)
                          ELSE generateTextReturn(invoked, ApologyNoResponse)
           [] outcome = "empty" ->
                /\ cache' = cache
                /\ gen' = generateTextReturn(invoked, ApologyNoResponse)
           [] OTHER ->
                /\ cache' = cache
                /\ gen' = generateTextReturn(invoked, ApologyGenerationError)
      /\ UNCHANGED <<call, req, users, messages, clock, cacheLog, merge, http, rag, redis, alerts, agent, keys>>

----------------------------------------------------------------------------
(* generateKey on pairs of lookups *)

\* The longest query of a lookup.
MaxKeyQueryLength == 3

KeyChars == {"a", "-", " "}

\* crop, region and farmStage of a context: unset or set.
KeyFields == { <<>>, <<"a">> }

KeyQueries ==
  UNION { [1..n -> KeyChars] : n \in 0..MaxKeyQueryLength }

KeyContexts ==
  {NoContext} \cup
    [given : {TRUE}, crop : KeyFields, region : KeyFields, farmStage : KeyFields]

\* No pair of lookups yet.
NoKeys ==
  [applied |-> FALSE, first |-> <<<<>>, NoContext>>, second |-> <<<<>>, NoContext>>,
   keyFirst |-> <<>>, keySecond |-> <<>>]

\* The keys of the two lookups are generated.
GenerateKeys ==
  /\ ~keys.applied
  /\ keys' = [ keys EXCEPT
                 !.applied = TRUE,
                 !.keyFirst = generateKey(keys.first[1], keys.first[2]),
                 !.keySecond = generateKey(keys.second[1], keys.second[2]) ]
  /\ UNCHANGED <<call, req, users, messages, clock, cache, cacheLog, merge, http, rag, redis, alerts, agent, gen>>

----------------------------------------------------------------------------
(* Specification of processQuery called directly *)

Init ==
  /\ call = [r \in Requests |-> IdleCall]
  /\ req = [r \in Requests |-> IdleRequest]
  /\ users = <<>>
  /\ messages = {}
  /\ clock = 0
  /\ cache = <<>>
  /\ cacheLog = NoCacheLog
  /\ merge = NoMerge
  /\ http = [r \in Requests |-> IdleHttp]
  /\ rag = NoRetrieval
  /\ redis = NoRedis
  /\ alerts = NoAlertRun
  /\ agent = NoAgentCall
  /\ gen = NoGeneration
  /\ keys = NoKeys

Next == \E r \in {1} : DirectCall(r) \/ processQueryStep(r)

Spec == Init /\ [][Next]_vars

----------------------------------------------------------------------------
(* Specification of combineResponses *)

InitCombine ==
  /\ call = [r \in Requests |-> IdleCall]
  /\ req = [r \in Requests |-> IdleRequest]
  /\ users = <<>>
  /\ messages = {}
  /\ clock = 0
  /\ cache = <<>>
  /\ cacheLog = NoCacheLog
  /\ merge \in {[NoMerge EXCEPT !.responses = l] : l \in ResponseLists}
  /\ http = [r \in Requests |-> IdleHttp]
  /\ rag = NoRetrieval
  /\ redis = NoRedis
  /\ alerts = NoAlertRun
  /\ agent = NoAgentCall
  /\ gen = NoGeneration
  /\ keys = NoKeys

NextCombine == ApplyCombineResponses

SpecCombine == InitCombine /\ [][NextCombine]_vars

----------------------------------------------------------------------------
(* Specification of the ResponseCache *)

NextCache ==
  \/ \E lookup \in CacheLookups : CacheGet(lookup[1], lookup[2])
  \/ \E lookup \in CacheLookups, response \in CacheResponses :
       CacheSet(lookup[1], response, lookup[2])
  \/ CacheClearExpired
  \/ CacheClear
  \/ Tick

SpecCache == Init /\ [][NextCache]_vars

----------------------------------------------------------------------------
(* Specification of the channels: concurrent processMessage calls *)

\* The store at start: empty, or holding user 1 with no message, or holding
\* user 1, who prefers Kiswahili, with an earlier conversation of
\* HistoryLimit - 1 messages.
InitChannel ==
  /\ call = [r \in Requests |-> IdleCall]
  /\ req = [r \in Requests |-> IdleRequest]
  /\ \/ users = <<>> /\ messages = {}
     \/ \E phone \in Phones :
          \/ users = <<userDocument(1, phone, "en")>> /\ messages = {}
          \/ /\ users = <<userDocument(1, phone, "sw")>>
             /\ messages = earlierMessages(HistoryLimit - 1)
  /\ clock = 0
  /\ cache = <<>>
  /\ cacheLog = NoCacheLog
  /\ merge = NoMerge
  /\ http = [r \in Requests |-> IdleHttp]
  /\ rag = NoRetrieval
  /\ redis = NoRedis
  /\ alerts = NoAlertRun
  /\ agent = NoAgentCall
  /\ gen = NoGeneration
  /\ keys = NoKeys

NextChannel == \E r \in Requests : processMessageStep(r)

SpecChannel == InitChannel /\ [][NextChannel]_vars

----------------------------------------------------------------------------
(* Specification of the HTTP endpoints: one request *)

NextHttp == \E r \in {1} : httpStep(r)

SpecHttp == InitChannel /\ [][NextHttp]_vars

----------------------------------------------------------------------------
(* Specification of RAGService.retrieve *)

InitRetrieve ==
  /\ call = [r \in Requests |-> IdleCall]
  /\ req = [r \in Requests |-> IdleRequest]
  /\ users = <<>>
  /\ messages = {}
  /\ clock = 0
  /\ cache = <<>>
  /\ cacheLog = NoCacheLog
  /\ merge = NoMerge
  /\ http = [r \in Requests |-> IdleHttp]
  /\ rag \in { [NoRetrieval EXCEPT !.local = local, !.localThrows = localThrows,
                                   !.general = general, !.generalThrows = generalThrows,
                                   !.external = external, !.online = online] :
               local \in LocalResults, localThrows \in BOOLEAN,
               general \in GeneralData, generalThrows \in BOOLEAN,
               external \in ExternalOutcomes, online \in OnlineResults }
  /\ redis = NoRedis
  /\ alerts = NoAlertRun
  /\ agent = NoAgentCall
  /\ gen = NoGeneration
  /\ keys = NoKeys

NextRetrieve == Retrieve

SpecRetrieve == InitRetrieve /\ [][NextRetrieve]_vars

----------------------------------------------------------------------------
(* Specification of the RedisCache *)

NextRedis ==
  \/ RedisConnect
  \/ \E lookup \in RedisLookups, outcome \in {"ok", "getThrows", "setThrows"} :
       RedisGet(lookup[1], lookup[2], outcome)
  \/ \E lookup \in RedisLookups, response \in CacheResponses, outcome \in {"ok", "setThrows"} :
       RedisSet(lookup[1], response, lookup[2], outcome)
  \/ RedisTick

SpecRedis == Init /\ [][NextRedis]_vars

----------------------------------------------------------------------------
(* Specification of the alert scheduler *)

NextAlerts ==
  \/ CheckAndSendAlerts
  \/ AlertGetUser
  \/ AlertSave
  \/ AlertWhatsApp
  \/ AlertSms

SpecAlerts == Init /\ [][NextAlerts]_vars

----------------------------------------------------------------------------
(* Specification of InputValidator.validate *)

InitValidate ==
  /\ call = [r \in Requests |-> IdleCall]
  /\ req = [r \in Requests |-> IdleRequest]
  /\ users = <<>>
  /\ messages = {}
  /\ clock = 0
  /\ cache = <<>>
  /\ cacheLog = NoCacheLog
  /\ merge = NoMerge
  /\ http = [r \in Requests |-> IdleHttp]
  /\ rag = NoRetrieval
  /\ redis = NoRedis
  /\ alerts = NoAlertRun
  /\ agent \in {[NoAgentCall EXCEPT !.input = input] : input \in ValidatorInputs}
  /\ gen = NoGeneration
  /\ keys = NoKeys

NextValidate == ValidateAndProcess

SpecValidate == InitValidate /\ [][NextValidate]_vars

----------------------------------------------------------------------------
(* Specification of calculateConfidence *)

InitConfidence ==
  /\ call = [r \in Requests |-> IdleCall]
  /\ req = [r \in Requests |-> IdleRequest]
  /\ users = <<>>
  /\ messages = {}
  /\ clock = 0
  /\ cache = <<>>
  /\ cacheLog = NoCacheLog
  /\ merge = NoMerge
  /\ http = [r \in Requests |-> IdleHttp]
  /\ rag = NoRetrieval
  /\ redis = NoRedis
  /\ alerts = NoAlertRun
  /\ agent \in { [NoAgentCall EXCEPT !.analysis = analysis, !.fewer = fewer, !.more = more] :
                   analysis \in QueryAnalyses,
                   fewer \in 0..MaxDocs, more \in 0..MaxDocs }
  /\ agent.fewer <= agent.more
  /\ gen = NoGeneration
  /\ keys = NoKeys

NextConfidence == CalculateConfidence

SpecConfidence == InitConfidence /\ [][NextConfidence]_vars

----------------------------------------------------------------------------
(* Specification of generateText behind the agents *)

NextGenerate ==
  \/ \E agentName \in GenAgents, query \in GenQueries, history \in GenHistories,
        language \in {"en", "sw"}, other \in InterpolatedLengths, env \in GenEnvironments :
       GenerateResponse(agentName, query, history, language, other, env)
  \/ \E outcome \in {"text", "noText", "throws"}, llmText \in GeneratedTexts :
       GenerateTextWithVertexAI(outcome, llmText)
  \/ \E outcome \in {"text", "empty", "throws"}, llmText \in GeneratedTexts :
       GenerateContent(outcome, llmText)
  \/ Tick

SpecGenerate == Init /\ [][NextGenerate]_vars

----------------------------------------------------------------------------
(* Specification of generateKey *)

InitKeys ==
  /\ call = [r \in Requests |-> IdleCall]
  /\ req = [r \in Requests |-> IdleRequest]
  /\ users = <<>>
  /\ messages = {}
  /\ clock = 0
  /\ cache = <<>>
  /\ cacheLog = NoCacheLog
  /\ merge = NoMerge
  /\ http = [r \in Requests |-> IdleHttp]
  /\ rag = NoRetrieval
  /\ redis = NoRedis
  /\ alerts = NoAlertRun
  /\ agent = NoAgentCall
  /\ gen = NoGeneration
  /\ keys \in { [NoKeys EXCEPT !.first = <<q1, c1>>, !.second = <<q2, c2>>] :
                  q1 \in KeyQueries, c1 \in KeyContexts,
                  q2 \in KeyQueries, c2 \in KeyContexts }

NextKeys == GenerateKeys

SpecKeys == InitKeys /\ [][NextKeys]_vars

----------------------------------------------------------------------------
(* Claims about processQuery, checked under Spec *)

Returned(c) == c.pc = "done"

Happened(c, event) == \E i \in 1..Len(c.events) : c.events[i] = event

\* The call took the greeting short-circuit of lines 28-36.
ShortCircuited(c) ==
  /\ Returned(c)
  /\ isGreeting(trim(toLowerCase(c.query)))

\* C1: processQuery never raises.  Every call that has returned has returned
\* a text with no exception escaping, and a call whose try block threw has
\* returned exactly the fixed apology.
ProcessQueryNeverRaises ==
  \A r \in Requests :
    LET c == call[r]
    IN  /\ Returned(c) => /\ ~c.raised
                          /\ c.result \in Seq(STRING)
        /\ Returned(c) /\ Happened(c, <<"catch">>) => c.result = OrchestratorApology

\* C1 witness: an exception was thrown inside the pipeline (a context with
\* no user reached the output-language selection after a generator ran) and
\* the call returned the apology.
ProcessQueryCaughtException ==
  \E r \in Requests :
    /\ Returned(call[r])
    /\ Happened(call[r], <<"catch">>)
    /\ Happened(call[r], <<"merge">>)
    /\ call[r].result = OrchestratorApology
    /\ ~call[r].raised

\* C5: the query "my maize leaves have holes", classified as a pest or crop
\* question, is dispatched to both the pest and the crop generator with the
\* pest response first, and a crop response of confidence <= 0.5 leaves only
\* the pest text in the output.
HolesQueryDispatchesPestThenCrop ==
  \A r \in Requests :
    LET c == call[r]
    IN  ( /\ Returned(c)
          /\ c.query = Q_holes
          /\ c.language = "en"
          /\ c.intent \in {I_pest, I_crop}
          /\ Happened(c, <<"merge">>) )
        => /\ Len(c.responses) = 2
           /\ c.responses[1].agent = "pest"
           /\ c.responses[2].agent = "crop"
           /\ c.responses[2].confidence <= ConfidenceThreshold
                => c.result = c.responses[1].response

\* What the code does instead: one call never awaits more than one generator.
SingleGeneratorPerCall ==
  \A r \in Requests : Len(call[r].responses) <= 1

\* C7: with the AI classifier unavailable, the intent is the keyword
\* classification of the query, and for "What pests affect maize?" it is
\* "pest".
PestsQueryFallsBackToPest ==
  \A r \in Requests :
    LET c == call[r]
    IN  ( /\ c.pc \in {"recheck", "dispatch", "merge", "done"}
          /\ c.classifier \in {"failed", "invalid"} )
        => /\ c.intent = keywordBasedClassification(c.processedQuery)
           /\ c.processedQuery = Q_pests => c.intent = I_pest

\* The replies processQuery can give to the same greeting, in the same
\* context and language, when the history is the other way (empty instead
\* of non-empty, non-empty instead of empty).
CounterpartReplies(c) ==
  { greetingReply(processQueryEnter(c.query, c.context, h, c.language), o).result :
      h \in {h \in Histories : (Len(h) = 0) # (Len(c.history) = 0)},
      o \in GenOutcomes }

\* C9: a query matching the greeting heuristics is answered without the
\* intent classifier or any generator, and the reply with empty history
\* differs from the reply with non-empty history.
GreetingShortCircuitReply ==
  \A r \in Requests :
    LET c == call[r]
    IN  ShortCircuited(c) /\ c.context.hasUser
        => /\ \A i \in 1..Len(c.events) :
                c.events[i][1] \notin {"classifier", "classify", "agent", "merge"}
           /\ c.result \notin CounterpartReplies(c)

\* C9 holds of the calls that do not go through the translator.
GreetingShortCircuitReplyEnglish ==
  \A r \in Requests :
    LET c == call[r]
    IN  ShortCircuited(c) /\ c.context.hasUser /\ c.language # "sw"
        => /\ \A i \in 1..Len(c.events) :
                c.events[i][1] \notin {"classifier", "classify", "agent", "merge"}
           /\ c.result \notin CounterpartReplies(c)
           /\ c.result = handleGreeting(c.context, c.history)

----------------------------------------------------------------------------
(* Claims about combineResponses, checked under SpecCombine *)

RECURSIVE appendConfident(_, _)
\* text, followed by a blank line and the response text of each of the
\* responses whose confidence exceeds the threshold, in order.
appendConfident(text, responses) ==
  IF Len(responses) = 0 THEN text
  ELSE appendConfident(
         IF responses[1].confidence > ConfidenceThreshold
         THEN text \o BlankLine \o responses[1].response
         ELSE text,
         Tail(responses))

\* C6: a single response is returned verbatim; of several, the primary's
\* text comes first and each later response of confidence above 0.5 follows
\* it after a blank line, so that the output is exactly the primary's text
\* when no later response qualifies.
CombineResponsesMergeRule ==
  merge.applied /\ Len(merge.responses) >= 1
    => merge.output = appendConfident(merge.responses[1].response, Tail(merge.responses))

\* What the code does when no later response qualifies: the primary's text
\* is followed by a blank line.
CombineResponsesTrailingBlankLine ==
  ( /\ merge.applied
    /\ Len(merge.responses) >= 2
    /\ \A i \in 2..Len(merge.responses) :
         merge.responses[i].confidence <= ConfidenceThreshold )
  => merge.output = merge.responses[1].response \o BlankLine

----------------------------------------------------------------------------
(* Claims about the ResponseCache, checked under SpecCache *)

\* C2: a get issued immediately after a set of the same key, no later than
\* ttl after it, returns the response that was set.
CacheRoundTrip ==
  ( /\ cacheLog.last.op = "get"
    /\ cacheLog.last.sinceSet \in 0..Ttl )
  => cacheLog.last.result = cacheLog.last.response

\* C2 witness: a get at the very end of the entry's time to live returned
\* the response set by the call before it.
CacheRoundTripAtTtl ==
  /\ cacheLog.last.op = "get"
  /\ cacheLog.last.sinceSet = Ttl
  /\ cacheLog.last.result = cacheLog.last.response
  /\ cacheLog.last.result # Null

\* C3: a get that finds an entry older than ttl returns null, and a get
\* that returns a response has found an entry no older than ttl; no sweep
\* is needed for it.
CacheTtlMiss ==
  cacheLog.last.op = "get"
    => /\ cacheLog.last.foundAge > Ttl => cacheLog.last.result = Null
       /\ cacheLog.last.result # Null => cacheLog.last.foundAge \in 0..Ttl

\* C3 witness: a get found an entry older than ttl still in the map,
\* returned null and removed it.
CacheExpiredEntryRead ==
  /\ cacheLog.last.op = "get"
  /\ cacheLog.last.foundAge > Ttl
  /\ cacheLog.last.result = Null

\* A get of the key would hit.
cacheHit(key) ==
  cacheHas(key) /\ ~expired(cache[cacheIndex(key)], clock)

\* maxSize + 1 distinct keys have been set on an empty cache and none of
\* them has expired.
CacheOverfilled ==
  /\ ~cacheLog.void
  /\ Len(cacheLog.sets) = MaxSize + 1
  /\ clock - cacheLog.firstAt <= Ttl

\* C4: after maxSize + 1 distinct keys have been set, none expired, the key
\* set first is a miss and each of the other maxSize keys is a hit.
CacheCapacityEvictsOldest ==
  CacheOverfilled
    => /\ ~cacheHit(cacheLog.sets[1])
       /\ \A i \in 2..(MaxSize + 1) : cacheHit(cacheLog.sets[i])
       /\ Len(cache) = MaxSize

\* C4 witness: the cache has been overfilled, the first key is gone, and the
\* sets were made at more than one time.
CacheOverfilledOverTime ==
  /\ CacheOverfilled
  /\ ~cacheHas(cacheLog.sets[1])
  /\ \E i \in 1..Len(cache) : cache[i].timestamp > cacheLog.firstAt

\* C28: whatever get, set, clearExpired and clear calls the concurrent
\* requests make, in whatever order, the cache never holds more than maxSize
\* entries.
CacheSizeBound == Len(cache) <= MaxSize

\* A set of a new key on a full cache has left the cache full.
CacheFullAfterSet ==
  /\ cacheLog.last.op = "set"
  /\ Len(cacheLog.sets) = MaxSize + 1
  /\ cacheLog.last.key = cacheLog.sets[MaxSize + 1]
  /\ Len(cache) = MaxSize
  /\ cacheHas(cacheLog.last.key)

----------------------------------------------------------------------------
(* Claims about processMessage, checked under SpecChannel *)

\* The request has called processQuery and the call has returned.
Orchestrated(r) ==
  req[r].pc \in {"saveOutbound", "done"} /\ Returned(call[r])

\* The place of the first event of the kind in the call's events, 0 if none.
firstEvent(c, event) ==
  IF Happened(c, event)
  THEN CHOOSE i \in 1..Len(c.events) :
         c.events[i] = event /\ \A j \in 1..(i - 1) : c.events[j] # event
  ELSE 0

\* C8: a channel message whose language is "sw" reaches processQuery with
\* language "sw": the query is translated to English before the intent is
\* classified and the merged response is translated to Kiswahili last.
LanguagePassThrough ==
  \A r \in Requests :
    LET c == call[r]
    IN  Orchestrated(r) /\ req[r].language = "sw"
        => /\ c.language = "sw"
           /\ Happened(c, <<"classify">>)
                => /\ Happened(c, <<"translate", "sw", "en">>)
                   /\ firstEvent(c, <<"translate", "sw", "en">>) < firstEvent(c, <<"classify">>)
           /\ Happened(c, <<"merge">>) /\ ~Happened(c, <<"catch">>)
                => c.events[Len(c.events)] = <<"translate", "en", "sw">>

\* What the code does instead: processQuery is always called with its
\* default language.
ChannelCallsInDefaultLanguage ==
  \A r \in Requests : Orchestrated(r) => call[r].language = "en"

\* C10: the history handed to the orchestrator never holds the request's
\* own inbound message, however the requests of a user interleave.
HistoryExcludesOwnMessage ==
  \A r \in Requests :
    req[r].pc \in {"orchestrate", "saveOutbound", "done"}
      => \A i \in 1..Len(req[r].history) : req[r].history[i] # <<r, "inbound">>

\* The store holds the message the request saved in the direction.
Saved(r, direction) == \E m \in messages : m.id = <<r, direction>>

\* C11: within a request the history is fetched only when the inbound
\* message is in the store, processQuery is called only from the step after
\* the history fetch, and the outbound message is added only when
\* processQuery has returned.
ProcessMessageOrdering ==
  [][ \A r \in Requests :
        /\ req[r].pc = "getMessages" /\ req'[r].pc = "orchestrate"
             => Saved(r, "inbound")
        /\ call'[r] # call[r]
             => /\ req[r].pc = "orchestrate"
                /\ Saved(r, "inbound")
                /\ ~Saved(r, "outbound")
        /\ Saved(r, "outbound")' /\ ~Saved(r, "outbound")
             => /\ req[r].pc = "saveOutbound"
                /\ Returned(call[r])
                /\ Saved(r, "inbound") ]_vars

\* C11 witness: a request went through all its steps while another one was
\* in progress.
ProcessMessageCompleted ==
  \E r, q \in Requests :
    /\ r # q
    /\ req[r].pc = "done"
    /\ Saved(r, "inbound")
    /\ Saved(r, "outbound")
    /\ Returned(call[r])
    /\ req[r].response = call[r].result
    /\ req[q].pc \in {"getMessages", "orchestrate", "saveOutbound"}

\* C12: the users collection never holds two documents with the same phone
\* number, whatever the interleaving of the requests and whether or not a
\* lookup fails.
UserIdentityUnique ==
  \A i, j \in 1..Len(users) :
    users[i].phoneNumber = users[j].phoneNumber => i = j

----------------------------------------------------------------------------
(* Claims about the generators, checked under Spec *)

\* The ways generation fails inside BaseAgent.process: an exception in the
\* agent's generation step, or no generation backend answering.
GenerationFailures == {"generationThrows", "nokey", "empty", "error"}

\* C13: whenever generation fails inside BaseAgent.process, the response
\* returned to the orchestrator has the fixed apology text, confidence 0
\* and the error flag.
GeneratorFailureResult ==
  \A r \in Requests :
    \A i \in 1..Len(call[r].responses) :
      LET response == call[r].responses[i]
      IN  response.met \in GenerationFailures
          => /\ response.response = AgentError
             /\ response.confidence = 0
             /\ response.error

\* What the code does instead: a failed generation is returned as an
\* ordinary response, with an apology of generateText or of the agent as its
\* text, the confidence computed from the retrieval and no error flag; the
\* fixed result is returned only for an exception outside the generation
\* step.
GeneratorFailureUnflagged ==
  \A r \in Requests :
    \A i \in 1..Len(call[r].responses) :
      LET response == call[r].responses[i]
      IN  /\ response.met \in GenerationFailures
               => /\ ~response.error
                  /\ response.confidence >= 30
                  /\ response.response \in
                       { GenerationApology(response.agent), ApologyNotConfigured,
                         ApologyNoResponse, ApologyGenerationError }
          /\ response.met = "throws"
               => /\ response.response = AgentError
                  /\ response.confidence = 0
                  /\ response.error

----------------------------------------------------------------------------
(* Claims about the translation of the reply, checked under Spec *)

\* The step of r is the merge of a call whose reply goes to Kiswahili.
MergedToKiswahili(r) ==
  /\ call[r].pc = "merge"
  /\ call'[r].pc = "done"
  /\ ~targetLanguageThrows(call[r])
  /\ targetLanguage(call[r]) = "sw"

\* C18: the reply of a call whose target language is Kiswahili is the
\* translation of the merged response or, when the translation backend
\* fails, the untranslated merged response; never another text.
TranslationFailureKeepsText ==
  [][ \A r \in Requests :
        MergedToKiswahili(r)
          => LET combinedResponse == combineResponses(call[r].responses)
             IN  call'[r].result \in
                   { trim(cleanResponse(LLMTranslation(combinedResponse, "sw"))),
                     combinedResponse } ]_vars

\* What the code does instead: generateText never throws, so translate's
\* catch is never entered; the reply is the translation or one of
\* generateText's apologies, and the untranslated merged response only when
\* that is itself the apology the translator met.
TranslationFailureReturnsApology ==
  [][ \A r \in Requests :
        MergedToKiswahili(r)
          => LET combinedResponse == combineResponses(call[r].responses)
             IN  /\ call'[r].result \in
                      { trim(cleanResponse(LLMTranslation(combinedResponse, "sw"))),
                        ApologyNotConfigured, ApologyNoResponse, ApologyGenerationError }
                 /\ combinedResponse \notin
                      {ApologyNotConfigured, ApologyNoResponse, ApologyGenerationError}
                      => call'[r].result # combinedResponse ]_vars

----------------------------------------------------------------------------
(* Claims about failures inside processMessage, checked under SpecChannel *)

\* C16: when saving the inbound or the outbound message fails, the request
\* goes on and its reply is still the response of the orchestrator.  A
\* finished request that has a user can have failed only in a save.
BestEffortPersistence ==
  \A r \in Requests :
    req[r].pc = "done" /\ req[r].user # 0
      => Returned(call[r]) /\ req[r].response = call[r].result

\* What the code does instead: a request whose save failed is answered with
\* the fixed apology of processMessage's catch; when the inbound save failed
\* the orchestrator was never called.
PersistenceFailureAborts ==
  \A r \in Requests :
    req[r].pc = "done" /\ req[r].user # 0
      => /\ ~Saved(r, "outbound") => req[r].response = ChannelApology
         /\ ~Saved(r, "inbound") => call[r] = IdleCall
         /\ Saved(r, "outbound") => Returned(call[r]) /\ req[r].response = call[r].result

\* C17: when the user lookup or the user creation fails, the request is
\* still processed by the orchestrator.  A finished request without a user
\* is one whose lookup found nothing, or failed, and whose creation failed.
UserFailureDegrades ==
  \A r \in Requests :
    req[r].pc = "done" /\ req[r].user = 0
      => Returned(call[r]) /\ req[r].response = call[r].result

\* What the code does instead: a failed creation ends the request with the
\* fixed apology, nothing saved and the orchestrator never called; a failed
\* lookup alone leads to the creation of a user, never to a request that
\* runs without one.
UserFailureAborts ==
  \A r \in Requests :
    /\ req[r].pc = "done" /\ req[r].user = 0
         => /\ req[r].response = ChannelApology
            /\ call[r] = IdleCall
            /\ ~Saved(r, "inbound") /\ ~Saved(r, "outbound")
    /\ req[r].pc \in {"getMessages", "orchestrate", "saveOutbound"} => req[r].user # 0

----------------------------------------------------------------------------
(* Claims about RAGService.retrieve, checked under SpecRetrieve *)

\* The external search gave nothing because it threw, was switched off, was
\* not configured or had no embedding to search with.
ExternalSearchFailed == rag.external \in {"throws", "disabled", "unconfigured", "noEmbedding"}

\* C19: retrieve never lets an exception escape, and when the external
\* search throws, is unavailable or is not configured it returns the results
\* of the local search; when the local search found nothing these are the
\* first three blocks of the general local data.
RetrieveIsolatesExternalFailure ==
  rag.applied
    => /\ ~rag.raised
       /\ ExternalSearchFailed /\ ~rag.localThrows
            => rag.result = IF rag.local # <<>> THEN rag.local
                            ELSE IF rag.generalThrows THEN <<>>
                            ELSE slice(rag.general, 0, 3)

RetrieveAfterExternalThrow ==
  /\ rag.applied
  /\ rag.external = "throws"
  /\ ~rag.localThrows
  /\ Len(rag.local) = 2
  /\ Len(rag.general) = 4
  /\ rag.result = rag.local
  /\ ~rag.raised

----------------------------------------------------------------------------
(* Claims about the RedisCache, checked under SpecRedis *)

\* The embedded cache holds the entry the last set wrote.
LocalHoldsLastSet ==
  \E i \in 1..Len(cache) :
    /\ cache[i].key = redis.last.key
    /\ cache[i].response = redis.last.response
    /\ cache[i].timestamp = redis.last.at
    /\ cache[i].hitCount = 0

\* C20: get and set never raise; a get whose Redis command failed returns
\* what the embedded cache held under the key, and after a set whose Redis
\* command failed the embedded cache holds the entry.
RedisFallback ==
  /\ ~redis.last.raised
  /\ redis.last.op = "get" /\ redis.last.failed => redis.last.result = redis.last.local
  /\ redis.last.op = "set" /\ redis.last.failed => LocalHoldsLastSet

RedisFailureServedLocally ==
  /\ redis.useRedis
  /\ redis.last.op = "get"
  /\ redis.last.failed
  /\ redis.last.result # Null
  /\ redis.last.result = redis.last.local
  /\ redis.store = <<>>

\* C21: after a set that Redis accepted and after a get that Redis answered
\* with a hit, the embedded cache holds the same entry, so that a later get
\* can be served from it when Redis fails.
RedisMirrorsIntoLocal ==
  /\ redis.last.op = "set" /\ redis.last.backend = "redis" => LocalHoldsLastSet
  /\ redis.last.op = "get" /\ redis.last.backend = "redis"
       => \E i \in 1..Len(cache) :
            /\ cache[i].key = redis.last.key
            /\ cache[i].response = redis.last.result

\* What the code does instead: every set writes the embedded cache, and a
\* get that Redis answers leaves the embedded cache as it was.
RedisWriteMirroredReadNot ==
  /\ redis.last.op = "set" => LocalHoldsLastSet
  /\ redis.last.op = "get" /\ redis.last.backend = "redis"
       => /\ redis.last.local = Null
            => ~(\E i \in 1..Len(cache) :
                   cache[i].key = redis.last.key /\ clock - cache[i].timestamp <= RedisTtl)
          /\ redis.last.local # Null
            => \E i \in 1..Len(cache) :
                 cache[i].key = redis.last.key /\ cache[i].response = redis.last.local

\* C29: with Redis available, an entry written by set at time T is a miss
\* for every get later than T + ttl, however many hits it had in between: a
\* get never returns an entry older than ttl.
RedisTtlContract ==
  redis.last.op = "get" /\ redis.last.backend = "redis" /\ redis.last.result # Null
    => redis.last.age <= RedisTtl

\* What the code does instead: every hit writes the entry back with a new
\* time to live, so an entry that has been hit n times is served until less
\* than (n + 1) * ttl after it was set.
RedisHitRenewsTtl ==
  redis.last.op = "get" /\ redis.last.backend = "redis" /\ redis.last.result # Null
    => redis.last.age < redis.last.hitCount * RedisTtl

----------------------------------------------------------------------------
(* Claims about the alert scheduler, checked under SpecAlerts *)

\* The steps logged for the i-th alert of the run, in order.
attemptsOf(i) == SelectSeq(alerts.attempts, LAMBDA t : t.alert = i)

\* The sendAlert call for the i-th alert has been made and has returned.
AlertHandled(i) ==
  \/ i < alerts.next
  \/ i = alerts.next /\ alerts.pc = "finished"

\* C22: every alert of the run gets its sendAlert call whatever happened to
\* the alerts before it: when the run is finished every alert has been
\* handled, and an alert whose user was found and which was saved has had
\* its WhatsApp push attempted.  WhatsApp comes first, and SMS is attempted
\* exactly when the WhatsApp push failed.
AlertDeliveryIsolation ==
  /\ alerts.pc = "finished" => \A i \in 1..Len(alerts.run) : AlertHandled(i)
  /\ \A i \in 1..Len(alerts.run) :
       AlertHandled(i)
         => LET steps == attemptsOf(i)
            IN  /\ Len(steps) \in 1..2
                /\ steps[1].step \in {"getUserById", "saveAlert", "whatsapp"}
                /\ Len(steps) = 2
                     <=> steps[1].step = "whatsapp" /\ ~steps[1].ok
                /\ Len(steps) = 2 => steps[2].step = "sms"

\* A finished run of three alerts in which both pushes of the first alert
\* failed and the two alerts after it were pushed.
AlertsAfterFailedDelivery ==
  /\ alerts.pc = "finished"
  /\ Len(alerts.run) = MaxAlerts
  /\ alerts.run[1][1] # alerts.run[2][1]
  /\ Len(attemptsOf(1)) = 2
  /\ ~attemptsOf(1)[2].ok
  /\ attemptsOf(2) = << [alert |-> 2, step |-> "whatsapp", ok |-> TRUE] >>
  /\ Len(attemptsOf(3)) = 2
  /\ attemptsOf(3)[2].ok

----------------------------------------------------------------------------
(* Claims about InputValidator.validate, checked under SpecValidate *)

\* The text is longer than the maximum once trimmed.
Oversized(input) == Len(trim(input)) > MaxLength

\* C23: an oversized text is cut to the maximum length with a warning and no
\* error, so it is valid and process goes on to generate an answer.
OversizedInputTruncated ==
  agent.applied /\ Oversized(agent.input)
    => /\ Len(agent.validation.sanitized) <= MaxLength
       /\ Len(agent.validation.warnings) > 0
       /\ agent.validation.errors = <<>>
       /\ agent.validation.isValid
       /\ agent.result.met = "ok"

\* What the code does instead: the text is cut and the warning added, but an
\* error is added too, so the text is invalid and process returns its
\* rephrase request with confidence 0.
OversizedInputRejected ==
  agent.applied /\ Oversized(agent.input)
    => /\ Len(agent.validation.sanitized) <= MaxLength
       /\ agent.validation.warnings[1] = "Query was truncated"
       /\ agent.validation.errors = <<"Query exceeds maximum length">>
       /\ ~agent.validation.isValid
       /\ agent.result.met = "invalid"
       /\ agent.result.response = AgentInvalidInput
       /\ agent.result.confidence = 0

\* Texts of at most the maximum length are valid unless they are blank.
SizedInputAccepted ==
  agent.applied /\ ~Oversized(agent.input)
    => /\ agent.validation.isValid <=> trim(agent.input) # <<>>
       /\ agent.validation.isValid <=> agent.result.met = "ok"

----------------------------------------------------------------------------
(* Claims about calculateConfidence, checked under SpecConfidence *)

\* C24: for one query analysis the confidence does not fall when the number
\* of retrieved passages grows.
ConfidenceMonotone ==
  agent.applied => agent.confidenceFewer <= agent.confidenceMore

\* A complex query: two passages leave the confidence at its floor, three
\* raise it.
ConfidenceRisesWithPassages ==
  /\ agent.applied
  /\ agent.analysis.given
  /\ agent.analysis.complexity = "complex"
  /\ agent.analysis.keywords = 1
  /\ agent.fewer = 2
  /\ agent.more = 3
  /\ agent.confidenceFewer = 35
  /\ agent.confidenceMore = 85

----------------------------------------------------------------------------
(* Claims about the HTTP endpoints, checked under SpecHttp *)

Responded(r) == http[r].pc = "responded"

Success(status) == status \in 200..299

\* C14: every webhook endpoint answers every inbound event with a success
\* status, also when processing or the push of the reply fails.
WebhookAlwaysSucceeds ==
  \A r \in Requests :
    Responded(r) /\ http[r].endpoint \in Webhooks => Success(http[r].status)

\* What the code does instead: the USSD and voice webhooks always answer
\* with success, and so do the WhatsApp and SMS webhooks whatever happens in
\* processMessage; the only failure status is the 500 after processMessage
\* has returned, from the catch around sendMessage.
WebhookFailsOnlyOnSend ==
  \A r \in Requests :
    Responded(r) /\ http[r].endpoint \in Webhooks /\ ~Success(http[r].status)
      => /\ http[r].endpoint \in {"whatsapp", "sms"}
         /\ http[r].event = "message"
         /\ http[r].status = 500
         /\ req[r].pc = "done"

\* C15: the web API answers with a status other than 2xx only when a
\* required request field is missing; every downstream failure is answered
\* with 200.
WebApiPropagation ==
  \A r \in Requests :
    Responded(r) /\ http[r].endpoint \in WebApi /\ ~Success(http[r].status)
      => http[r].event = "missing"

\* What the code does instead: /api/chat and /api/chat/history behave as
\* claimed; /api/user/location answers 404 when the user lookup finds none or
\* fails, and 500 when the update of the user fails.
WebApiPropagationExceptLocation ==
  \A r \in Requests :
    Responded(r) /\ http[r].endpoint \in WebApi /\ ~Success(http[r].status)
                 /\ http[r].event # "missing"
      => /\ http[r].endpoint = "location"
         /\ http[r].status \in {404, 500}

----------------------------------------------------------------------------
(* Claims about generateText, checked under SpecGenerate *)

\* The generateText call in gen was made with conversation history.
WithHistory(g) == g.pc # "idle" /\ Len(g.history) > 0

\* A backend generated the text the call in gen returned.
GenerationSucceeded(g) == g.pc = "done" /\ g.generated # Null

\* C25: a generator call that carries non-empty conversation history
\* neither reads nor writes the response cache: from its entry to its
\* return the cache (entries, timestamps, hit counters) is what it was at the
\* entry.
NoCachingWithHistory ==
  WithHistory(gen) => cache = gen.before /\ ~gen.useCache

\* A call with history has returned a generated text.
GeneratedWithHistory ==
  /\ WithHistory(gen)
  /\ GenerationSucceeded(gen)
  /\ gen.backends = <<"vertex">>
  /\ gen.result = <<"advice">>
  /\ cache = gen.before

\* C26: after a generator call without history whose generation succeeded,
\* the generated text is in the response cache under the call's prompt, and
\* an identical later call within the time to live is answered from the
\* cache without a generation backend.
CachingWithoutHistory ==
  /\ GenerationSucceeded(gen) /\ Len(gen.history) = 0
       => \E i \in 1..Len(cache) :
            /\ cache[i].key = generateKey(gen.prompt, NoContext)
            /\ cache[i].response = gen.result
  /\ ( /\ gen.pc = "done" /\ Len(gen.history) = 0
       /\ gen.previous.ended /\ gen.previous.succeeded /\ gen.previous.useCache
       /\ gen.previous.prompt = gen.prompt
       /\ gen.at - gen.previous.at <= Ttl )
       => gen.backends = <<>> /\ gen.result = gen.previous.result

\* What the code does instead: no agent's prompt is shorter than 500
\* characters, so no call of an agent reads or writes the response cache,
\* which stays empty, and every call goes to a backend or ends in an apology.
AgentPromptsNeverCached ==
  /\ cache = <<>>
  /\ gen.pc # "idle" => gen.promptLength >= CacheablePromptLength
  /\ gen.pc = "done" /\ gen.backends = <<>> => gen.result = ApologyNotConfigured

\* C27: generateText tries Vertex AI first when it is configured, and calls
\* the API-key backend only if Vertex AI is unconfigured or has failed; a
\* text from Vertex AI is returned without a call of the API-key backend.
GenerationFallbackOrder ==
  LET configured == gen.env.projectId /\ gen.env.credentialsPath
  IN  /\ Len(gen.backends) > 0 /\ configured => gen.backends[1] = "vertex"
      /\ ~configured => \A i \in 1..Len(gen.backends) : gen.backends[i] # "vertex"
      /\ \A i \in 1..Len(gen.backends) :
            gen.backends[i] = "apiKey"
              => ~configured \/ (i = 2 /\ gen.primary \in {"noText", "throws"})
      /\ gen.primary = "text"
            => /\ gen.backends = <<"vertex">>
               /\ gen.pc = "done"
               /\ gen.result = gen.generated
      /\ gen.pc = "done" /\ configured => gen.primary # "none" \/ gen.backends = <<>>

\* Vertex AI failed and the API-key backend generated the text.
SecondaryAfterPrimaryFailure ==
  /\ gen.pc = "done"
  /\ gen.backends = <<"vertex", "apiKey">>
  /\ gen.primary = "throws"
  /\ gen.secondary = "text"
  /\ gen.result = <<"advice">>

----------------------------------------------------------------------------
(* Claims about generateKey, checked under SpecKeys *)

\* query.toLowerCase().trim().replace(/\s+/g, ' ')
normalizedQuery(query) == collapseWhitespace(trim(toLowerCase(query)))

\* The crop, region and farmStage of a lookup; an absent context has none
\* set.
contextValues(context) ==
  IF context.given THEN <<context.crop, context.region, context.farmStage>>
  ELSE <<<<>>, <<>>, <<>>>>

\* C30: generateKey gives two lookups the same key only if they have the
\* same normalized query and the same crop, region and farmStage.
CacheKeyInjective ==
  keys.applied /\ keys.keyFirst = keys.keySecond
    => /\ normalizedQuery(keys.first[1]) = normalizedQuery(keys.second[1])
       /\ contextValues(keys.first[2]) = contextValues(keys.second[2])

\* What the code does keep: lookups with the same normalized query and the
\* same crop, region and farmStage get the same key.
EqualLookupsShareKey ==
  ( /\ keys.applied
    /\ normalizedQuery(keys.first[1]) = normalizedQuery(keys.second[1])
    /\ contextValues(keys.first[2]) = contextValues(keys.second[2])
    /\ keys.first[2].given = keys.second[2].given )
    => keys.keyFirst = keys.keySecond

====
